---- MODULE Spec2Model ----
(***************************************************************************)
(* JLS Lawn Tracker: the job scheduling client (src/script.js), the jobs   *)
(* API it talks to (src/unnamed/part_000, src/netlify/functions/jobs.js)   *)
(* and the two job stores (the remote jobs table, the localStorage mirror).*)
(*                                                                         *)
(* Conventions of the model                                                *)
(*   - an optional value (null / undefined in the code) is a tuple of      *)
(*     length 0 (Null) or 1 (<<v>>);                                       *)
(*   - a remote job id (bigint assigned by the table) is <<n>>, a local    *)
(*     job id `${Date.now()}_${idx}` is <<now, idx>>;                      *)
(*   - a series id `rec_${Date.now()}` is <<now>>;                         *)
(*   - a Date object is its instant, in hours; a datetime-local string     *)
(*     'YYYY-MM-DDTHH:mm' is the wall-clock hour count it spells (hours    *)
(*     since 2024-06-01T00:00: 57 is '2024-06-03T09:00', 224 is            *)
(*     '2024-06-10T08:00'); an ISO string 'YYYY-MM-DDTHH:mm:ss.sssZ'       *)
(*     is the record [utc |-> hours] of the UTC wall clock it spells.      *)
(*     The browser's zone is a fixed offset tz (local = UTC + tz).         *)
(***************************************************************************)
EXTENDS Integers, Sequences, FiniteSets, TLC

VARIABLES
    apiAvailable,             \* script.js:384
    tz,                       \* the browser's UTC offset, in hours
    writes,                   \* how many store functions the session has called
    now,                      \* what Date.now() reads
    remote,                   \* the rows of the remote jobs table
    nextId,                   \* the next id the jobs table assigns
    local,                    \* the array stored under CONFIG.storage.jobsKey
    calendar,                 \* the events FullCalendar holds (last fetchEvents)
    ui,                       \* which overlay is not 'hidden'
    currentEventId,           \* script.js:229
    currentRecurringId,       \* script.js:230
    isEditMode,               \* script.js:231
    editScope,                \* script.js:233
    selectedJobType,          \* script.js:232
    detailsStatus,            \* the status the details buttons were set from
    wizardRecurring,          \* #wizard-recurring .checked
    recurringLocked,          \* #wizard-recurring disabled, or its container hidden
    pendingEditEvent,         \* script.js:1362
    pendingCancelRecurringId, \* script.js:929
    pendingCancelDate,        \* script.js:930
    pendingCancelIsRecurring, \* script.js:931
    scopeButtons,             \* #btn-cancel-future / #btn-cancel-all not 'hidden'
    last,                     \* the outcome of the last handler that reached a store
    inflight                  \* the requests the jobs API is serving, by client

vars == <<apiAvailable, tz, writes, now, remote, nextId, local, calendar, ui,
          currentEventId, currentRecurringId, isEditMode, editScope,
          selectedJobType, detailsStatus, wizardRecurring, recurringLocked,
          pendingEditEvent, pendingCancelRecurringId, pendingCancelDate,
          pendingCancelIsRecurring, scopeButtons, last, inflight>>

clientVars == <<currentEventId, currentRecurringId, isEditMode, editScope,
                selectedJobType, detailsStatus, wizardRecurring, recurringLocked,
                pendingEditEvent, pendingCancelRecurringId, pendingCancelDate,
                pendingCancelIsRecurring, scopeButtons>>

(***************************************************************************)
(* Bounds                                                                  *)
(***************************************************************************)
\* jobs ever inserted into the remote table; length of the local array
MaxJobs == 4
\* largest value Date.now() reads
MaxClock == 2
\* largest number typed into #wizard-occurrences
MaxOccurrences == 3
\* store functions (create, update, mark, delete) called in one session
MaxWrites == 2
\* clients with a request to the jobs API under way at the same time
MaxClients == 2

Null == <<>>

JobTypes == {"mowing", "hedge"}
Frequencies == {"weekly", "biweekly", "monthly"}
Statuses == {"pending", "done", "cancelled"}
\* UTC offsets of the browsers modelled: America/New_York in June, the zone
\* the business works in (src/netlify/functions/google-calendar.js:137)
TzOffsets == {-4}

(***************************************************************************)
(* Dates (script.js:42-49, 697-702)                                        *)
(***************************************************************************)
\* new Date('YYYY-MM-DDTHH:mm'): a string without zone is read as local time
ParseLocal(s) == s - tz

\* formatLocalDateTime(date): the local wall clock of the instant
formatLocalDateTime(d) == d + tz

\* date.setDate(date.getDate() + days): local calendar days, same time of day
AddDays(d, days) == ParseLocal(formatLocalDateTime(d) + 24 * days)

\* date.toISOString(): the UTC wall clock, suffixed with Z
toISOString(d) == [utc |-> d]

\* every frequency taken for weekly
IntervalDaysWeeklyOnly(frequency) == 7

\* CONFIG.recurrence[frequency] || 7
IntervalDays(frequency) ==
    CASE frequency = "weekly" -> 7
      [] frequency = "biweekly" -> 14
      [] frequency = "monthly" -> 30
      [] OTHER -> 7

\* parseInt(value) || 1
ParseOccurrences(raw) == IF raw = 0 THEN 1 ELSE raw

(***************************************************************************)
(* The form (script.js:615-625): what the user has typed when SAVE is hit. *)
(***************************************************************************)
Form(client, address, price, date, isRecurring, frequency, occurrences) ==
    [ client |-> client, phone |-> "555", address |-> address, price |-> price,
      date |-> date, notes |-> "gate", isRecurring |-> isRecurring,
      frequency |-> frequency, occurrences |-> occurrences ]

\* a form with every required field filled in; the frequency select shows
\* 'weekly' until it is changed
Filled(date, isRecurring, frequency, occurrences) ==
    Form("Ann", "1 Elm St", "40", <<date>>, isRecurring, frequency, occurrences)

\* the submissions <<formData, selectedJobType>> of a session: a one-off job,
\* a series of two and a series of MaxOccurrences, and the submissions below
\* that must not pass validation
ValidSubmissions ==
    { <<Filled(224, FALSE, "weekly", 0), "hedge">>,
      <<Filled(57, TRUE, "weekly", 2), "mowing">>,
      <<Filled(57, TRUE, "weekly", MaxOccurrences), "mowing">> }

InvalidSubmissions ==
    { <<Form("", "1 Elm St", "40", <<57>>, FALSE, "weekly", 0), "mowing">>,
      <<Form("Ann", "", "40", <<57>>, TRUE, "weekly", 2), "mowing">>,
      <<Form("Ann", "1 Elm St", "", <<57>>, FALSE, "weekly", 0), "hedge">>,
      <<Form("Ann", "1 Elm St", "40", Null, TRUE, "monthly", 2), "mowing">>,
      <<Filled(57, FALSE, "weekly", 0), "">>,
      <<Filled(57, TRUE, "biweekly", 2), "">>,
      <<Filled(57, TRUE, "weekly", 0), "mowing">>,
      <<Filled(224, TRUE, "monthly", 1), "hedge">> }

Submissions == ValidSubmissions \cup InvalidSubmissions

\* the submissions of a session that only schedules (SpecWizard): every
\* frequency and every number of occurrences, with and without recurrence,
\* from two dates
WizardDates == {57, 224}
WizardSubmissions ==
    {<<Filled(d, TRUE, f, n), IF d = 57 THEN "mowing" ELSE "hedge">> :
        d \in WizardDates, f \in Frequencies, n \in 0..MaxOccurrences}
    \cup {<<Filled(d, FALSE, "weekly", n), IF d = 57 THEN "hedge" ELSE "mowing">> :
             d \in WizardDates, n \in 0..MaxOccurrences}
    \cup InvalidSubmissions

\* the validation without its price and occurrences checks
hasErrorsLax(formData, jobType) ==
    \/ formData.client = ""
    \/ jobType = ""
    \/ formData.address = ""
    \/ formData.date = Null

\* script.js:634-672
hasErrors(formData, jobType) ==
    \/ formData.client = ""
    \/ jobType = ""
    \/ formData.address = ""
    \/ formData.price = ""
    \/ formData.date = Null
    \/ formData.isRecurring /\ ParseOccurrences(formData.occurrences) < 2

\* script.js:684-688
TypeLabel(jobType) == IF jobType = "mowing" THEN "Mowing" ELSE "Hedge Trimming"
EventTitle(formData, jobType) == <<formData.client, TypeLabel(jobType)>>

\* `rec_${Date.now()}` (script.js:691)
NewRecurringId(clock) == <<clock>>

\* script.js:691-693
RecurringIdFor(formData, clock) ==
    IF formData.isRecurring THEN NewRecurringId(clock) ELSE Null
\* the occurrences field obeyed whether or not recurrence is requested
NumJobsFromField(formData) == ParseOccurrences(formData.occurrences)

\* numJobs (script.js:693)
NumJobs(formData) ==
    IF formData.isRecurring THEN ParseOccurrences(formData.occurrences) ELSE 1

\* the record built in iteration i of the loop (script.js:696-719)
BuildJob(formData, jobType, editMode, clock, i) ==
    [ title |-> EventTitle(formData, jobType),
      start_time |-> formatLocalDateTime(
          AddDays(ParseLocal(formData.date[1]), i * IntervalDays(formData.frequency))),
      job_type |-> jobType,
      notes |-> formData.notes,
      price |-> formData.price,
      address |-> formData.address,
      client_phone |-> formData.phone,
      status |-> IF editMode /\ i = 0 THEN Null ELSE <<"pending">>,
      recurring_id |-> RecurringIdFor(formData, clock),
      is_recurring |-> formData.isRecurring,
      recurrence_pattern |->
          IF formData.isRecurring
          THEN <<formData.frequency, IntervalDays(formData.frequency)>>
          ELSE Null,
      occurrence_number |-> i + 1 ]

\* jobsToCreate (script.js:694-719)
BuildJobs(formData, jobType, editMode, clock) ==
    [k \in 1..NumJobs(formData) |-> BuildJob(formData, jobType, editMode, clock, k - 1)]

(***************************************************************************)
(* The remote jobs table behind the jobs API (src/unnamed/part_000:190-405)*)
(* A handler is the function from the table to [rows, ok, body]; ok is     *)
(* response.ok as the client sees it.  The Google credentials are unset,   *)
(* so createCalendarEvent returns null and deleteCalendarEvent returns at  *)
(* once (part_000:144-147, 164-166) and no row gets a google_event_id.     *)
(***************************************************************************)
\* the row a POST inserts for one submitted job (part_000:223-226)
InsertedRow(job, id) ==
    [ id |-> id,
      title |-> job.title,
      start_time |-> job.start_time,
      job_type |-> job.job_type,
      notes |-> job.notes,
      price |-> job.price,
      address |-> job.address,
      client_phone |-> job.client_phone,
      status |-> IF job.status = Null THEN "pending" ELSE job.status[1],
      recurring_id |-> job.recurring_id,
      is_recurring |-> job.is_recurring,
      recurrence_pattern |-> job.recurrence_pattern,
      occurrence_number |-> job.occurrence_number,
      google_event_id |-> Null ]

\* POST /api/jobs (part_000:217-246)
HandlePost(rows, firstId, jobs) ==
    [ rows |-> rows \cup {InsertedRow(jobs[k], <<firstId + k - 1>>) : k \in 1..Len(jobs)},
      ok |-> TRUE,
      body |-> [created |-> <<Len(jobs)>>] ]

\* PATCH jobs?id=eq.<id> with the body of PUT /api/jobs/:id: every key the
\* client sent replaces the column (part_000:277-281; the client deleted
\* `status` from the body, script.js:708, 717)
PatchSingle(row, updates) ==
    [row EXCEPT !.title = updates.title,
                !.start_time = updates.start_time,
                !.job_type = updates.job_type,
                !.notes = updates.notes,
                !.price = updates.price,
                !.address = updates.address,
                !.client_phone = updates.client_phone,
                !.status = IF updates.status = Null THEN @ ELSE updates.status[1],
                !.recurring_id = updates.recurring_id,
                !.is_recurring = updates.is_recurring,
                !.recurrence_pattern = updates.recurrence_pattern,
                !.occurrence_number = updates.occurrence_number]

\* PUT /api/jobs/:id (part_000:272-288)
HandlePutSingle(rows, jobId, updates) ==
    [ rows |-> {IF r.id = jobId THEN PatchSingle(r, updates) ELSE r : r \in rows},
      ok |-> TRUE,
      body |-> [success |-> TRUE] ]

\* sharedData (script.js:845-852)
SharedData(jobData) ==
    [ title |-> jobData.title, job_type |-> jobData.job_type, notes |-> jobData.notes,
      price |-> jobData.price, address |-> jobData.address,
      client_phone |-> jobData.client_phone ]

\* a series update that also puts every job back to pending
PatchSharedAndStatus(row, shared) ==
    [row EXCEPT !.title = shared.title,
                !.job_type = shared.job_type,
                !.notes = shared.notes,
                !.price = shared.price,
                !.address = shared.address,
                !.client_phone = shared.client_phone,
                !.status = "pending"]

\* PATCH jobs?id=eq.<id> with the body of PUT /api/jobs/series/:recurringId
\* (part_000:256-260)
PatchShared(row, shared) ==
    [row EXCEPT !.title = shared.title,
                !.job_type = shared.job_type,
                !.notes = shared.notes,
                !.price = shared.price,
                !.address = shared.address,
                !.client_phone = shared.client_phone]

\* the series select narrowed to pending rows
SelectSeriesPending(rows, recurringId) ==
    {r.id : r \in {x \in rows : x.recurring_id = recurringId /\ x.status = "pending"}}

\* jobs?recurring_id=eq.<recurringId>&select=id
SelectSeries(rows, recurringId) ==
    {r.id : r \in {x \in rows : x.recurring_id = recurringId}}

\* start_time=gte.<fromDate>: start_time is stored as text, "ISO format
\* without Z", and compared as text (part_000:561-562).  The client sends
\* fromDate.toISOString().  The two strings agree in layout up to the
\* minutes; when those 16 characters are equal the stored string is a proper
\* prefix of the ISO string and therefore smaller.
TextGte(start_time, fromDate) == start_time > fromDate.utc

\* jobs?recurring_id=eq.<recurringId>&start_time=gte.<fromDate>&select=id
SelectFuture(rows, recurringId, fromDate) ==
    {r.id : r \in {x \in rows : /\ x.recurring_id = recurringId
                                /\ TextGte(x.start_time, fromDate)}}

\* DELETE jobs?id=eq.<id>: removes the row if there is one, 204 either way
DeleteRow(rows, id) == {r \in rows : r.id # id}

\* the loop `for (const job of jobs || []) { delete row; count++ }`
\* (part_000:325-337, 352-364): the table and the count after it
RECURSIVE DeleteLoop(_, _, _)
DeleteLoop(rows, ids, count) ==
    IF ids = {} THEN [rows |-> rows, count |-> count]
    ELSE LET id == CHOOSE x \in ids : TRUE
         IN DeleteLoop(DeleteRow(rows, id), ids \ {id}, count + 1)

\* the loop of PUT /api/jobs/series/:recurringId (part_000:255-263)
RECURSIVE PatchLoop(_, _, _, _)
PatchLoop(rows, ids, shared, count) ==
    IF ids = {} THEN [rows |-> rows, count |-> count]
    ELSE LET id == CHOOSE x \in ids : TRUE
         IN PatchLoop({IF r.id = id THEN PatchShared(r, shared) ELSE r : r \in rows},
                      ids \ {id}, shared, count + 1)

\* PUT /api/jobs/series/:recurringId (part_000:248-270)
HandlePutSeries(rows, recurringId, shared) ==
    LET done == PatchLoop(rows, SelectSeries(rows, recurringId), shared, 0)
    IN [rows |-> done.rows, ok |-> TRUE, body |-> [updated |-> <<done.count>>]]

\* a delete route that removes the whole series of the row
HandleDeleteWithSiblings(rows, jobId) ==
    [ rows |-> {r \in rows : \A x \in rows :
                   x.id = jobId => (r.id # x.id /\ (x.recurring_id = Null
                                                     \/ r.recurring_id # x.recurring_id))},
      ok |-> TRUE,
      body |-> [deleted |-> <<1>>] ]

\* DELETE /api/jobs/delete/:id (part_000:290-314)
HandleDelete(rows, jobId) ==
    [rows |-> DeleteRow(rows, jobId), ok |-> TRUE, body |-> [deleted |-> <<1>>]]

\* DELETE /api/jobs/delete-future/:recurringId/:fromDate (part_000:316-344)
HandleDeleteFuture(rows, recurringId, fromDate) ==
    LET done == DeleteLoop(rows, SelectFuture(rows, recurringId, fromDate), 0)
    IN [rows |-> done.rows, ok |-> TRUE, body |-> [deleted |-> <<done.count>>]]

\* DELETE /api/jobs/delete-series/:recurringId (part_000:346-371)
HandleDeleteSeries(rows, recurringId) ==
    LET done == DeleteLoop(rows, SelectSeries(rows, recurringId), 0)
    IN [rows |-> done.rows, ok |-> TRUE, body |-> [deleted |-> <<done.count>>]]

\* PATCH /api/jobs/done/:id (part_000:373-388)
HandleDone(rows, jobId) ==
    [ rows |-> {IF r.id = jobId THEN [r EXCEPT !.status = "done"] ELSE r : r \in rows},
      ok |-> TRUE,
      body |-> [success |-> TRUE] ]

\* PATCH /api/jobs/cancel/:id (src/netlify/functions/jobs.js:134-149)
HandleCancel(rows, jobId) ==
    [ rows |-> {IF r.id = jobId THEN [r EXCEPT !.status = "cancelled"] ELSE r : r \in rows},
      ok |-> TRUE,
      body |-> [success |-> TRUE] ]

\* the routes of the variant of the API that writes a scope in one request
\* to the table, filtered by the predicate (part_000:501-591)
\* PUT /api/jobs/series/:recurringId (part_000:501-518)
HandlePutSeriesBulk(rows, recurringId, shared) ==
    [ rows |-> {IF r.recurring_id = recurringId THEN PatchShared(r, shared) ELSE r :
                   r \in rows},
      ok |-> TRUE,
      body |-> [success |-> TRUE] ]

\* PATCH /api/jobs/cancel-future/:recurringId/:fromDate (part_000:555-575)
HandleCancelFutureBulk(rows, recurringId, fromDate) ==
    [ rows |-> {IF r.recurring_id = recurringId /\ TextGte(r.start_time, fromDate)
                THEN [r EXCEPT !.status = "cancelled"] ELSE r : r \in rows},
      ok |-> TRUE,
      body |-> [success |-> TRUE] ]

\* PATCH /api/jobs/cancel-series/:recurringId (part_000:577-591)
HandleCancelSeriesBulk(rows, recurringId) ==
    [ rows |-> {IF r.recurring_id = recurringId
                THEN [r EXCEPT !.status = "cancelled"] ELSE r : r \in rows},
      ok |-> TRUE,
      body |-> [success |-> TRUE] ]

\* how a write request fails: the handler threw before it touched the table
\* and answered 500 with { error: error.message } (part_000:397-404), or
\* fetch rejected because no answer came
WriteFailures == {"status500", "networkError"}

\* a failed request: the table as it was, !response.ok or no response
Failed(rows, why) ==
    [ rows |-> rows, ok |-> FALSE, why |-> why,
      body |-> IF why = "status500" THEN <<[error |-> "Supabase error: 500"]>> ELSE Null ]

\* an error whose message says nothing of what went wrong
ThrownMessageUnknown(res, fallback) == "Unknown error"

\* the message of the Error a store function throws on a failed request:
\* error.error || fallback, from the body of a non-2xx response
\* (script.js:778-780, 816-818, 860-862); the message of fetch's own
\* TypeError when there was no response
ThrownMessage(res, fallback) ==
    IF res.body = Null THEN "Failed to fetch"
    ELSE IF res.body[1].error = "" THEN fallback ELSE res.body[1].error

\* result.deleted || 0, result.updated || 0 (script.js:865, 1048, 1071)
OrZero(field) == IF field = Null THEN <<0>> ELSE field

(***************************************************************************)
(* The local mirror (script.js:783-803, 820-835, 866-885, 906-913,         *)
(* 1027-1031, 1049-1057, 1072-1078).  A function of the stored array that  *)
(* returns [arr, ret]: the array handed to Storage.set and the value the   *)
(* function returns.                                                       *)
(***************************************************************************)
\* the record createJobs pushes for jobs[idx] (script.js:785-800)
LocalRecord(job, clock, idx) ==
    [ id |-> <<clock, idx>>,
      title |-> job.title,
      start |-> job.start_time,
      type |-> job.job_type,
      notes |-> job.notes,
      phone |-> job.client_phone,
      status |-> IF job.status = Null THEN "pending" ELSE job.status[1],
      price |-> job.price,
      address |-> job.address,
      recurring_id |-> job.recurring_id,
      is_recurring |-> job.is_recurring ]

LocalCreate(existing, jobs, clock) ==
    [ arr |-> existing \o [k \in 1..Len(jobs) |-> LocalRecord(jobs[k], clock, k - 1)],
      wrote |-> TRUE,
      ret |-> Null ]

\* existing.findIndex(j => j.id === jobId): 0 stands for -1
FindIndex(existing, jobId) ==
    IF \E k \in 1..Len(existing) : existing[k].id = jobId
    THEN CHOOSE k \in 1..Len(existing) :
            /\ existing[k].id = jobId
            /\ \A m \in 1..(k - 1) : existing[m].id # jobId
    ELSE 0

\* script.js:821-835
LocalUpdate(existing, jobId, jobData) ==
    LET index == FindIndex(existing, jobId)
    IN [ arr |-> IF index = 0 THEN existing
                 ELSE [existing EXCEPT ![index] =
                          [@ EXCEPT !.title = jobData.title,
                                    !.start = jobData.start_time,
                                    !.type = jobData.job_type,
                                    !.notes = jobData.notes,
                                    !.phone = jobData.client_phone,
                                    !.address = jobData.address,
                                    !.price = jobData.price]],
         wrote |-> index # 0,
         ret |-> Null ]

\* script.js:868-884
LocalUpdateAll(existing, recurringId, shared) ==
    [ arr |-> [k \in 1..Len(existing) |->
                  IF existing[k].recurring_id = recurringId
                  THEN [existing[k] EXCEPT !.title = shared.title,
                                           !.type = shared.job_type,
                                           !.notes = shared.notes,
                                           !.price = shared.price,
                                           !.address = shared.address,
                                           !.phone = shared.client_phone]
                  ELSE existing[k]],
      wrote |-> TRUE,
      ret |-> <<Cardinality({k \in 1..Len(existing) :
                                existing[k].recurring_id = recurringId})>> ]

\* script.js:907-913, and cancelSingleJob of the earlier client
\* (src/supabase_archive_migration.sql:709-716)
LocalSetStatus(existing, jobId, status) ==
    LET index == FindIndex(existing, jobId)
    IN [ arr |-> IF index = 0 THEN existing
                 ELSE [existing EXCEPT ![index] = [@ EXCEPT !.status = status]],
         wrote |-> index # 0,
         ret |-> Null ]

\* script.js:1028-1030
LocalDeleteSingle(existing, jobId) ==
    LET keep(j) == j.id # jobId
    IN [arr |-> SelectSeq(existing, keep), wrote |-> TRUE, ret |-> Null]

\* script.js:1050-1056: new Date(job.start) >= fromDate compares instants
LocalDeleteFuture(existing, recurringId, fromDate) ==
    LET keep(job) == ~(job.recurring_id = recurringId /\ ParseLocal(job.start) >= fromDate)
        filtered == SelectSeq(existing, keep)
    IN [arr |-> filtered, wrote |-> TRUE, ret |-> <<Len(existing) - Len(filtered)>>]

\* script.js:1073-1077
LocalDeleteSeries(existing, recurringId) ==
    LET keep(job) == job.recurring_id # recurringId
        filtered == SelectSeq(existing, keep)
    IN [arr |-> filtered, wrote |-> TRUE, ret |-> <<Len(existing) - Len(filtered)>>]

(***************************************************************************)
(* Calendar events (script.js:434-451, 538-605).  Of an event the model    *)
(* keeps the properties the handlers read back.                            *)
(***************************************************************************)
\* a mapJobToEvent whose start is read as UTC
mapJobToEventUtc(job) ==
    [ id |-> job.id, title |-> job.title, start |-> job.start_time,
      type |-> job.job_type, notes |-> job.notes, status |-> job.status,
      price |-> job.price, address |-> job.address, phone |-> job.client_phone,
      recurring_id |-> job.recurring_id, is_recurring |-> job.is_recurring,
      recurrence_pattern |-> job.recurrence_pattern,
      occurrence_number |-> job.occurrence_number ]

\* mapJobToEvent(job) (script.js:434-451), its start parsed by the calendar
\* as local time
mapJobToEvent(job) ==
    [ id |-> job.id, title |-> job.title, start |-> ParseLocal(job.start_time),
      type |-> job.job_type, notes |-> job.notes, status |-> job.status,
      price |-> job.price, address |-> job.address, phone |-> job.client_phone,
      recurring_id |-> job.recurring_id, is_recurring |-> job.is_recurring,
      recurrence_pattern |-> job.recurrence_pattern,
      occurrence_number |-> job.occurrence_number ]

\* a record of the local mirror is handed to the calendar as it is
LocalEvent(rec) == [rec EXCEPT !.start = ParseLocal(rec.start)]

\* calendar.getEventById(id): the events it may return; none when the set is empty
EventsById(id) == {e \in calendar : e.id = id}

(***************************************************************************)
(* What a handler did to the store it wrote, recorded in `last`.           *)
(***************************************************************************)
RowView(r) ==
    [ id |-> r.id, start |-> r.start_time, recurring_id |-> r.recurring_id,
      is_recurring |-> r.is_recurring, status |-> r.status ]
RecView(j) ==
    [ id |-> j.id, start |-> j.start, recurring_id |-> j.recurring_id,
      is_recurring |-> j.is_recurring, status |-> j.status ]
RemoteViews(rows) == {RowView(r) : r \in rows}
LocalViews(arr) == {RecView(arr[k]) : k \in 1..Len(arr)}

\* the jobs of the store the session writes to
Jobs == IF apiAvailable THEN RemoteViews(remote) ELSE LocalViews(local)

Mode == IF apiAvailable THEN "remote" ELSE "local"

NoLast ==
    [ op |-> "none", mode |-> "", scope |-> "",
      ok |-> TRUE,          \* the store function returned (did not throw)
      stored |-> FALSE,     \* the request was served / Storage.set returned true
      id |-> Null, rid |-> Null, from |-> Null,
      count |-> Null,       \* what the store function returned to its caller
      reported |-> Null,    \* the count in the server's response body
      before |-> {},        \* the jobs stored when the function was called
      removed |-> {},       \* the jobs the store lost
      nRemoved |-> 0,       \* how many records the store lost
      jobs |-> <<>>,        \* jobsToCreate
      form |-> Null,        \* the form submitted
      fetch |-> Null,       \* how a call of fetchEvents by the calendar went
      probe |-> Null,       \* how the request of initializeAPI ended
      failure |-> "",       \* how the request failed, if it did
      warned |-> FALSE,     \* Storage.set showed its could-not-save warning
      message |-> Null,     \* error?.message shown in the error modal
      listed |-> FALSE,     \* the list request of the handler's refetch was answered
      modal |-> "" ]        \* the kind of modal shown at the end

\* the outcome of a request to the jobs API
RemoteOutcome(base, rows, res, ret) ==
    [base EXCEPT !.mode = "remote", !.ok = res.ok, !.stored = res.ok,
                 !.before = RemoteViews(rows),
                 !.count = IF res.ok THEN ret ELSE Null,
                 !.removed = RemoteViews(rows) \ RemoteViews(res.rows),
                 !.nRemoved = Cardinality(rows) - Cardinality(res.rows),
                 !.failure = IF res.ok THEN "" ELSE res.why,
                 !.message = IF res.ok THEN Null
                             ELSE <<ThrownMessage(res, "Failed")>>,
                 !.modal = IF res.ok THEN base.modal ELSE "error"]

\* the outcome of a read-modify-write of the local mirror; stored tells
\* whether Storage.set was called and returned true.  Storage.set shows its
\* warning in #custom-modal and returns false (script.js:372-375); no caller
\* reads the return value, and the modal the handler shows next, if any,
\* replaces the warning in the same element (script.js:260-278)
LocalOutcome(base, arr, res, stored) ==
    [base EXCEPT !.mode = "local", !.ok = TRUE, !.stored = stored,
                 !.warned = res.wrote /\ ~stored,
                 !.modal = IF base.modal # "" THEN base.modal
                           ELSE IF res.wrote /\ ~stored THEN "warning" ELSE "",
                 !.before = LocalViews(arr),
                 !.count = res.ret,
                 !.removed = IF stored THEN LocalViews(arr) \ LocalViews(res.arr) ELSE {},
                 !.nRemoved = IF stored THEN Len(arr) - Len(res.arr) ELSE 0]

\* Storage.set(key, value) (script.js:367-376): the array stored afterwards
StorageSet(arr, value, writeOk) == IF writeOk THEN value ELSE arr

(***************************************************************************)
(* The session                                                             *)
(***************************************************************************)
(***************************************************************************)
(* A request to the jobs API while it is being served.  The bulk routes    *)
(* select the ids first and then write row by row, one request to the      *)
(* table at a time (part_000:253-263, 294-307, 321-337, 350-364), so the   *)
(* requests of other clients are served in between.                        *)
(***************************************************************************)
Clients == 1..MaxClients

NoRequest ==
    [ route |-> "none", pc |-> "idle",
      arg |-> Null,         \* :id or :recurringId
      from |-> Null,        \* :fromDate
      shared |-> Null,      \* the body of a PUT
      ids |-> {},           \* the selected ids not yet written
      matched |-> 0,        \* rows that matched when the request arrived
      count |-> 0,          \* the handler's count
      did |-> 0,            \* rows this request's writes removed or updated
      jobs |-> <<>>,        \* the body of a POST
      inserted |-> 0,       \* rows the insert of a POST stored
      eventIds |-> {},      \* the selected ids whose row had a google_event_id
      created |-> {},       \* the ids of the rows a POST inserted
      events |-> {},        \* <<job id, event id>> createCalendarEvent returned
      syncs |-> 0,          \* calls of createCalendarEvent / deleteCalendarEvent
      status |-> 0,         \* statusCode of the response
      seq |-> 0,            \* the request was the seq-th to arrive
      cookie |-> Null,      \* the jls_auth cookie the request carries
      authorization |-> Null, \* its Authorization header
      env |-> Null,         \* what Deno.env.get read while it was served
      next |-> FALSE,       \* context.next() was reached
      setCookie |-> Null,   \* the cookie context.cookies.set stored
      body |-> Null ]       \* the response body

\* What an earlier session left in a store: the series submitted as
\* SeedSubmission when Date.now() read 0, its first occurrence marked done
\* since, its last one cancelled through the cancel route of the earlier API
\* (src/netlify/functions/jobs.js:134-149)
SeedSubmission == <<Filled(57, TRUE, "weekly", 3), "mowing">>
SeedJobs == BuildJobs(SeedSubmission[1], SeedSubmission[2], FALSE, 0)
SeedRows ==
    HandleCancel(HandleDone(HandlePost({}, 1, SeedJobs).rows, <<1>>).rows, <<3>>).rows
SeedMirror ==
    LocalSetStatus(LocalSetStatus(LocalCreate(<<>>, SeedJobs, 0).arr,
                                  <<0, 0>>, "done").arr,
                   <<0, 2>>, "cancelled").arr

\* the page has loaded (script.js:1766-1811): initializeAPI has decided
\* apiAvailable (script.js:390-409), the store in use is empty or holds what
\* an earlier session left, the calendar has not been handed its events yet
InitClient ==
    /\ writes = 0
    /\ now = 1
    /\ calendar = {}
    /\ ui = "calendar"
    /\ currentEventId = Null
    /\ currentRecurringId = Null
    /\ isEditMode = FALSE
    /\ editScope = "single"
    /\ selectedJobType = ""
    /\ detailsStatus = "pending"
    /\ wizardRecurring = FALSE
    /\ recurringLocked = FALSE
    /\ pendingEditEvent = Null
    /\ pendingCancelRecurringId = Null
    /\ pendingCancelDate = Null
    /\ pendingCancelIsRecurring = FALSE
    /\ scopeButtons = FALSE
    /\ last = NoLast
    /\ inflight = [c \in Clients |-> NoRequest]

Init ==
    /\ apiAvailable \in BOOLEAN
    /\ tz \in TzOffsets
    /\ \E seeded \in BOOLEAN :
          /\ remote = IF apiAvailable /\ seeded THEN SeedRows ELSE {}
          /\ nextId = IF apiAvailable /\ seeded THEN Len(SeedJobs) + 1 ELSE 1
          /\ local = IF ~apiAvailable /\ seeded THEN SeedMirror ELSE <<>>
    /\ InitClient

\* a store function that keeps the mirror up to date in remote mode as well
ApplyMirrored(base, req, ret, loc, ioOk) ==
    /\ writes < MaxWrites
    /\ writes' = writes + 1
    /\ IF apiAvailable
       THEN \E why \in IF ioOk THEN {""} ELSE WriteFailures :
               LET res == IF ioOk THEN req ELSE Failed(remote, why)
               IN /\ remote' = res.rows
                  /\ local' = IF ioOk THEN loc.arr ELSE local
                  /\ last' = RemoteOutcome(base, remote, res, ret)
       ELSE /\ remote' = remote
            /\ local' = IF loc.wrote THEN StorageSet(local, loc.arr, ioOk) ELSE local
            /\ last' = LocalOutcome(base, local, loc, loc.wrote /\ ioOk)

\* one store function of the client: `req` is what the jobs API answers and
\* `ret` what the function returns from it, `loc` what the local branch
\* computes.  ioOk: the fetch was answered by the handler / localStorage
\* accepted the write.
Apply(base, req, ret, loc, ioOk) ==
    /\ writes < MaxWrites
    /\ writes' = writes + 1
    /\ IF apiAvailable
       THEN \E why \in IF ioOk THEN {""} ELSE WriteFailures :
               LET res == IF ioOk THEN req ELSE Failed(remote, why)
               IN /\ remote' = res.rows
                  /\ local' = local
                  /\ last' = RemoteOutcome(base, remote, res, ret)
       ELSE /\ remote' = remote
            /\ local' = IF loc.wrote THEN StorageSet(local, loc.arr, ioOk) ELSE local
            /\ last' = LocalOutcome(base, local, loc, loc.wrote /\ ioOk)

\* Date.now() moves on
Tick ==
    /\ now < MaxClock
    /\ now' = now + 1
    /\ last' = NoLast
    /\ UNCHANGED <<apiAvailable, tz, inflight, writes, remote, nextId, local, calendar, ui, clientVars>>

\* fetchEvents (script.js:538-605): the calendar is handed the remote rows,
\* or the local mirror in local mode and when the request fails
fetchEvents(netOk, rows, arr) ==
    IF apiAvailable /\ netOk
    THEN {mapJobToEvent(r) : r \in rows}
    ELSE {LocalEvent(arr[k]) : k \in 1..Len(arr)}

\* how the list request GET /api/jobs ends (script.js:571-586): a 2xx
\* response with a JSON body, a non-2xx response, fetch rejecting, the abort
\* of the 10 s timer, a body that response.json() rejects
ListResponses == {"ok", "status500", "networkError", "aborted", "unparsable"}

\* Storage.get(key) (script.js:357-365): null when localStorage cannot be
\* read or its value cannot be parsed
StorageGet(arr, readOk) == IF readOk THEN <<arr>> ELSE Null

\* Storage.get(CONFIG.storage.jobsKey) || []
OrEmpty(value) == IF value = Null THEN <<>> ELSE value[1]

\* the days of the view the calendar asks events for (info.start up to
\* info.end, script.js:542): 2024-06-03 and 2024-06-24
ViewDays == {2, 23}

\* new Date(e.start).toDateString(): the local calendar day of an event
EventDay(e) == formatLocalDateTime(e.start) \div 24

\* the 'No Jobs' event pushed for a day (script.js:517-522); it has no id
EmptyDay(day) ==
    [ id |-> Null, start |-> ParseLocal(24 * day), type |-> "job-empty-day",
      status |-> "", recurring_id |-> Null, is_recurring |-> FALSE ]

\* addEmptyDayPlaceholders(events, startDate, endDate) (script.js:507-528)
addEmptyDayPlaceholders(events, days) ==
    events \cup {EmptyDay(d) : d \in {x \in days : \A e \in events : EventDay(e) # x}}

\* the events a click opens the details of (script.js:1711-1713): those
\* that are not 'No Jobs' placeholders
JobEvents(events) == {e \in events : e.type # "job-empty-day"}

\* a fetchEvents that reports a failed list request to the calendar
fetchEventsCallsReporting(resp, readOk, rows, arr) ==
    IF apiAvailable /\ resp # "ok"
    THEN <<[callback |-> "failure", events |-> {}]>>
    ELSE <<[ callback |-> "success",
             events |-> addEmptyDayPlaceholders(fetchEvents(TRUE, rows, arr), ViewDays) ]>>

\* the calls fetchEvents makes to the callbacks the calendar passed it, in
\* order (script.js:538-605): every path ends in one processEvents(...),
\* which calls successCallback once (script.js:539-549)
fetchEventsCalls(resp, readOk, rows, arr) ==
    <<[ callback |-> "success",
        events |-> addEmptyDayPlaceholders(
                       fetchEvents(resp = "ok", rows, OrEmpty(StorageGet(arr, readOk))),
                       ViewDays) ]>>

\* the calendar asks for its events again (the events source, script.js:1707)
\* and shows what successCallback is handed; `calendar` keeps the job events
FetchEvents(resp, readOk) ==
    /\ ui = "calendar"
    /\ apiAvailable \/ resp = "ok"             \* no request in local mode
    /\ (apiAvailable /\ resp = "ok") => readOk  \* the mirror is not read
    /\ LET calls == fetchEventsCalls(resp, readOk, remote, local)
       IN /\ calendar' = IF \E k \in 1..Len(calls) : calls[k].callback = "success"
                         THEN JobEvents(UNION {calls[k].events :
                                        k \in {m \in 1..Len(calls) :
                                                  calls[m].callback = "success"}})
                         ELSE calendar
          /\ last' = [NoLast EXCEPT !.op = "fetch", !.mode = Mode,
                                    !.fetch = <<[ failed |-> resp # "ok",
                                                  readable |-> readOk,
                                                  calls |-> calls ]>>]
    /\ UNCHANGED <<apiAvailable, tz, inflight, writes, now, remote, nextId, local, ui, clientVars>>

\* an openWizard that leaves isEditMode and editScope as the last edit set them
OpenWizardKeepsMode ==
    /\ ui = "calendar"
    /\ selectedJobType' = ""
    /\ wizardRecurring' = FALSE
    /\ recurringLocked' = FALSE
    /\ ui' = "wizard"
    /\ last' = NoLast
    /\ UNCHANGED <<apiAvailable, tz, inflight, writes, now, remote, nextId, local, calendar,
                   currentEventId, currentRecurringId, detailsStatus, pendingEditEvent,
                   pendingCancelRecurringId, pendingCancelDate, pendingCancelIsRecurring,
                   scopeButtons, isEditMode, editScope>>

\* openWizard (script.js:1497-1534)
OpenWizard ==
    /\ ui = "calendar"
    /\ isEditMode' = FALSE
    /\ selectedJobType' = ""
    /\ editScope' = "single"
    /\ wizardRecurring' = FALSE
    /\ recurringLocked' = FALSE
    /\ ui' = "wizard"
    /\ last' = NoLast
    /\ UNCHANGED <<apiAvailable, tz, inflight, writes, now, remote, nextId, local, calendar,
                   currentEventId, currentRecurringId, detailsStatus, pendingEditEvent,
                   pendingCancelRecurringId, pendingCancelDate, pendingCancelIsRecurring,
                   scopeButtons>>

\* closeWizard (script.js:1536-1538)
CloseWizard ==
    /\ ui = "wizard"
    /\ ui' = "calendar"
    /\ last' = NoLast
    /\ UNCHANGED <<apiAvailable, tz, inflight, writes, now, remote, nextId, local, calendar, clientVars>>

\* safeRefetchCalendar() at the end of a handler whose store function
\* returned (script.js:744, 916, 1005): the calendar is handed the events of
\* the stores as the handler left them
safeRefetchCalendar(netOk) ==
    /\ apiAvailable \/ netOk
    /\ calendar' = IF last'.ok THEN fetchEvents(netOk, remote', local') ELSE calendar

\* createJobs(jobs) (script.js:771-804)
createJobs(base, jobs, ioOk) ==
    /\ Apply([base EXCEPT !.op = "create"],
             HandlePost(remote, nextId, jobs), Null,
             LocalCreate(local, jobs, now), ioOk)
    /\ nextId' = IF apiAvailable /\ ioOk THEN nextId + Len(jobs) ELSE nextId

\* updateJob(jobId, jobData) (script.js:809-837)
updateJob(base, jobId, jobData, ioOk) ==
    /\ Apply([base EXCEPT !.op = "update", !.id = jobId],
             HandlePutSingle(remote, jobId, jobData), Null,
             LocalUpdate(local, jobId, jobData), ioOk)
    /\ nextId' = nextId

\* updateAllInSeries(recurringId, jobData) (script.js:843-886)
updateAllInSeries(base, recurringId, jobData, ioOk) ==
    LET req == HandlePutSeries(remote, recurringId, SharedData(jobData))
    IN /\ Apply([base EXCEPT !.op = "updateAll", !.rid = recurringId,
                             !.reported = IF ioOk /\ apiAvailable THEN req.body.updated ELSE Null],
                req, OrZero(req.body.updated),
                LocalUpdateAll(local, recurringId, SharedData(jobData)), ioOk)
       /\ nextId' = nextId

\* window.saveJob (script.js:614-752).  jobType: the type button selected
\* when SAVE is hit.
saveJob(formData, jobType, ioOk, netOk) ==
    /\ ui = "wizard"
    /\ formData.isRecurring \in (IF recurringLocked THEN {wizardRecurring} ELSE BOOLEAN)
    /\ selectedJobType' = jobType
    /\ wizardRecurring' = formData.isRecurring
    /\ IF hasErrors(formData, jobType)
       THEN /\ ioOk /\ netOk
            /\ last' = [NoLast EXCEPT !.op = "invalid", !.mode = Mode, !.form = <<formData>>,
                                      !.modal = "error"]
            /\ UNCHANGED <<writes, remote, nextId, local, calendar, ui, isEditMode, editScope>>
       ELSE LET jobsToCreate == BuildJobs(formData, jobType, isEditMode, now)
                base == [NoLast EXCEPT !.jobs = jobsToCreate, !.form = <<formData>>,
                                       !.modal = "success",
                                       !.listed = apiAvailable /\ netOk]
            IN /\ IF isEditMode
                  THEN IF editScope = "all" /\ currentRecurringId # Null
                       THEN updateAllInSeries(base, currentRecurringId, jobsToCreate[1], ioOk)
                       ELSE updateJob(base, currentEventId, jobsToCreate[1], ioOk)
                  ELSE /\ IF apiAvailable
                          THEN nextId - 1 + Len(jobsToCreate) <= MaxJobs
                          ELSE Len(local) + Len(jobsToCreate) <= MaxJobs
                       /\ createJobs(base, jobsToCreate, ioOk)
               /\ safeRefetchCalendar(netOk)
               /\ IF last'.ok
                  THEN /\ ui' = "calendar"       \* closeWizard()
                       /\ isEditMode' = FALSE
                       /\ editScope' = "single"
                  ELSE UNCHANGED <<ui, isEditMode, editScope>>
    /\ UNCHANGED <<apiAvailable, tz, inflight, now, currentEventId, currentRecurringId,
                   detailsStatus, recurringLocked, pendingEditEvent,
                   pendingCancelRecurringId, pendingCancelDate, pendingCancelIsRecurring,
                   scopeButtons>>

\* eventClick -> openJobDetails(event) (script.js:1540-1662, 1708-1717)
openJobDetails(event) ==
    /\ ui = "calendar"
    /\ event \in calendar
    /\ currentEventId' = event.id
    /\ currentRecurringId' = event.recurring_id
    /\ detailsStatus' = event.status
    /\ ui' = "details"
    /\ last' = NoLast
    /\ UNCHANGED <<apiAvailable, tz, inflight, writes, now, remote, nextId, local, calendar, isEditMode,
                   editScope, selectedJobType, wizardRecurring, recurringLocked,
                   pendingEditEvent, pendingCancelRecurringId, pendingCancelDate,
                   pendingCancelIsRecurring, scopeButtons>>

\* closeJobDetails (script.js:1664-1666)
closeJobDetails ==
    /\ ui = "details"
    /\ ui' = "calendar"
    /\ last' = NoLast
    /\ UNCHANGED <<apiAvailable, tz, inflight, writes, now, remote, nextId, local, calendar, clientVars>>

\* window.markJobAsDone (script.js:891-922); the button is disabled on a
\* done or cancelled job (script.js:1631-1650)
markJobAsDone(ioOk, netOk) ==
    /\ ui = "details"
    /\ currentEventId # Null
    /\ detailsStatus = "pending"
    /\ Apply([NoLast EXCEPT !.op = "done", !.id = currentEventId,
                            !.listed = apiAvailable /\ netOk],
             HandleDone(remote, currentEventId), Null,
             LocalSetStatus(local, currentEventId, "done"), ioOk)
    /\ safeRefetchCalendar(netOk)
    /\ ui' = IF last'.ok THEN "calendar" ELSE ui
    /\ UNCHANGED <<apiAvailable, tz, inflight, now, nextId, clientVars>>

\* a cancelJob that takes every event for an occurrence of a series
CancelContextAnySeries(found) ==
    [rid |-> <<now>>, date |-> <<now>>, isRecurring |-> TRUE]

\* the context cancelJob stores for `event` (script.js:943-950); found is
\* Null when getEventById returned nothing, and new Date() is then the clock
CancelContext(found) ==
    IF found = Null
    THEN [rid |-> Null, date |-> <<now>>, isRecurring |-> FALSE]
    ELSE [ rid |-> found[1].recurring_id,
           date |-> <<found[1].start>>,
           isRecurring |-> found[1].is_recurring /\ found[1].recurring_id # Null ]

\* window.cancelJob (script.js:933-975); the button is disabled on a
\* cancelled job (script.js:1643-1649)
cancelJob(found) ==
    /\ ui = "details"
    /\ currentEventId # Null
    /\ detailsStatus # "cancelled"
    /\ found \in IF EventsById(currentEventId) = {} THEN {Null}
                 ELSE {<<e>> : e \in EventsById(currentEventId)}
    /\ pendingCancelRecurringId' = CancelContext(found).rid
    /\ pendingCancelDate' = CancelContext(found).date
    /\ pendingCancelIsRecurring' = CancelContext(found).isRecurring
    /\ scopeButtons' = CancelContext(found).isRecurring
    /\ ui' = "cancelModal"
    /\ last' = NoLast
    /\ UNCHANGED <<apiAvailable, tz, inflight, writes, now, remote, nextId, local, calendar, currentEventId,
                   currentRecurringId, isEditMode, editScope, selectedJobType,
                   detailsStatus, wizardRecurring, recurringLocked, pendingEditEvent>>

\* window.closeCancelModal (script.js:980-985)
closeCancelModal ==
    /\ ui = "cancelModal"
    /\ ui' = "calendar"
    /\ pendingCancelRecurringId' = Null
    /\ pendingCancelDate' = Null
    /\ pendingCancelIsRecurring' = FALSE
    /\ last' = NoLast
    /\ UNCHANGED <<apiAvailable, tz, inflight, writes, now, remote, nextId, local, calendar, currentEventId,
                   currentRecurringId, isEditMode, editScope, selectedJobType,
                   detailsStatus, wizardRecurring, recurringLocked, pendingEditEvent,
                   scopeButtons>>

\* deleteSingleJob(jobId) (script.js:1017-1032)
deleteSingleJob(base, jobId, ioOk) ==
    LET req == HandleDelete(remote, jobId)
    IN Apply([base EXCEPT !.op = "deleteSingle", !.id = jobId,
                          !.reported = IF ioOk /\ apiAvailable THEN req.body.deleted ELSE Null],
             req, Null, LocalDeleteSingle(local, jobId), ioOk)

\* deleteFutureJobs(recurringId, fromDate) (script.js:1034-1058)
deleteFutureJobs(base, recurringId, fromDate, ioOk) ==
    LET req == HandleDeleteFuture(remote, recurringId, toISOString(fromDate))
    IN Apply([base EXCEPT !.op = "deleteFuture", !.rid = recurringId, !.from = <<fromDate>>,
                          !.reported = IF ioOk /\ apiAvailable THEN req.body.deleted ELSE Null],
             req, OrZero(req.body.deleted),
             LocalDeleteFuture(local, recurringId, fromDate), ioOk)

\* deleteEntireSeries(recurringId) (script.js:1060-1079)
deleteEntireSeries(base, recurringId, ioOk) ==
    LET req == HandleDeleteSeries(remote, recurringId)
    IN Apply([base EXCEPT !.op = "deleteSeries", !.rid = recurringId,
                          !.reported = IF ioOk /\ apiAvailable THEN req.body.deleted ELSE Null],
             req, OrZero(req.body.deleted),
             LocalDeleteSeries(local, recurringId), ioOk)

\* window.confirmCancelScope(scope) (script.js:990-1015), whenever it is
\* called: it hides the cancel modal, which may be hidden already
confirmCancelScopeCalled(scope, ioOk, netOk) ==
    /\ LET base == [NoLast EXCEPT !.scope = scope, !.modal = "success",
                                  !.listed = apiAvailable /\ netOk]
       IN CASE scope = "single" ->
                 deleteSingleJob(base, currentEventId, ioOk)
            [] scope = "future" /\ pendingCancelRecurringId # Null ->
                 deleteFutureJobs(base, pendingCancelRecurringId, pendingCancelDate[1], ioOk)
            [] scope = "all" /\ pendingCancelRecurringId # Null ->
                 deleteEntireSeries(base, pendingCancelRecurringId, ioOk)
            [] OTHER ->
                 /\ last' = [base EXCEPT !.op = "noop", !.mode = Mode, !.modal = ""]
                 /\ UNCHANGED <<writes, remote, local>>
    /\ safeRefetchCalendar(netOk)
    /\ ui' = IF ui = "cancelModal" THEN "calendar" ELSE ui
    /\ pendingCancelRecurringId' = Null
    /\ pendingCancelDate' = Null
    /\ pendingCancelIsRecurring' = FALSE
    /\ UNCHANGED <<apiAvailable, tz, inflight, now, nextId, currentEventId,
                   currentRecurringId, isEditMode, editScope, selectedJobType,
                   detailsStatus, wizardRecurring, recurringLocked, pendingEditEvent,
                   scopeButtons>>

\* a click on a scope button of the cancel modal; the future and all buttons
\* are hidden unless cancelJob found a recurring event (script.js:958-970)
confirmCancelScope(scope, ioOk, netOk) ==
    /\ ui = "cancelModal"
    /\ scope \in {"single"} \cup (IF scopeButtons THEN {"future", "all"} ELSE {})
    /\ confirmCancelScopeCalled(scope, ioOk, netOk)

\* window.confirmCancelScope called while the cancel modal is hidden: a
\* confirmation that no cancelJob precedes
confirmCancelScopeStale(scope, ioOk, netOk) ==
    /\ ui \in {"calendar", "details"}
    /\ confirmCancelScopeCalled(scope, ioOk, netOk)

\* openEditWizard(event) (script.js:1416-1495), with currentRecurringId as
\* editJob left it
openEditWizard(event, recurringId) ==
    /\ isEditMode' = TRUE
    /\ selectedJobType' = event.type
    /\ wizardRecurring' = IF recurringId # Null THEN wizardRecurring ELSE FALSE
    /\ recurringLocked' = TRUE
    /\ ui' = "wizard"

\* window.editJob (script.js:1364-1398); the button is disabled on a
\* cancelled job (script.js:1650)
editJob(found) ==
    /\ ui = "details"
    /\ currentEventId # Null
    /\ detailsStatus # "cancelled"
    /\ found \in {<<e>> : e \in EventsById(currentEventId)}
    /\ IF found[1].is_recurring /\ found[1].recurring_id # Null
       THEN /\ pendingEditEvent' = found
            /\ currentRecurringId' = found[1].recurring_id
            /\ ui' = "editScope"
            /\ UNCHANGED <<isEditMode, editScope, selectedJobType, wizardRecurring,
                           recurringLocked>>
       ELSE /\ editScope' = "single"
            /\ currentRecurringId' = Null
            /\ openEditWizard(found[1], Null)
            /\ UNCHANGED pendingEditEvent
    /\ last' = NoLast
    /\ UNCHANGED <<apiAvailable, tz, inflight, writes, now, remote, nextId, local, calendar, currentEventId,
                   detailsStatus, pendingCancelRecurringId, pendingCancelDate,
                   pendingCancelIsRecurring, scopeButtons>>

\* window.selectEditScope(scope) (script.js:1403-1411)
selectEditScope(scope) ==
    /\ ui = "editScope"
    /\ editScope' = scope
    /\ IF pendingEditEvent # Null
       THEN /\ openEditWizard(pendingEditEvent[1], currentRecurringId)
            /\ pendingEditEvent' = Null
       ELSE /\ ui' = "calendar"
            /\ UNCHANGED <<isEditMode, selectedJobType, wizardRecurring, recurringLocked,
                           pendingEditEvent>>
    /\ last' = NoLast
    /\ UNCHANGED <<apiAvailable, tz, inflight, writes, now, remote, nextId, local, calendar, currentEventId,
                   currentRecurringId, detailsStatus, pendingCancelRecurringId,
                   pendingCancelDate, pendingCancelIsRecurring, scopeButtons>>

\* the scopes confirmCancelScope branches on (script.js:994-1003) and the
\* values of editScope: 'single' or 'all' (script.js:233, 724, 1422, 1450)
CancelScopes == {"single", "future", "all"}
EditScopes == {"single", "all"}

Next ==
    \/ Tick
    \/ \E resp \in ListResponses, readOk \in BOOLEAN : FetchEvents(resp, readOk)
    \/ OpenWizard
    \/ CloseWizard
    \/ \E submission \in Submissions, ioOk, netOk \in BOOLEAN :
          saveJob(submission[1], submission[2], ioOk, netOk)
    \/ \E event \in calendar : openJobDetails(event)
    \/ closeJobDetails
    \/ \E ioOk, netOk \in BOOLEAN : markJobAsDone(ioOk, netOk)
    \/ \E found \in {Null} \cup {<<e>> : e \in calendar} : cancelJob(found)
    \/ closeCancelModal
    \/ \E scope \in CancelScopes, ioOk, netOk \in BOOLEAN :
          confirmCancelScope(scope, ioOk, netOk)
    \/ \E found \in {<<e>> : e \in calendar} : editJob(found)
    \/ \E scope \in EditScopes : selectEditScope(scope)

Spec == Init /\ [][Next]_vars

\* a session in which the user only schedules jobs
NextWizard ==
    \/ Tick
    \/ OpenWizard
    \/ CloseWizard
    \/ \E submission \in WizardSubmissions, ioOk, netOk \in BOOLEAN :
          saveJob(submission[1], submission[2], ioOk, netOk)

SpecWizard == Init /\ [][NextWizard]_vars

\* a session that looks at jobs and cancels them, in which confirmations may
\* also arrive while the cancel modal is hidden
NextCancel ==
    \/ \E resp \in ListResponses, readOk \in BOOLEAN : FetchEvents(resp, readOk)
    \/ \E event \in calendar : openJobDetails(event)
    \/ closeJobDetails
    \/ \E found \in {Null} \cup {<<e>> : e \in calendar} : cancelJob(found)
    \/ closeCancelModal
    \/ \E scope \in CancelScopes, ioOk, netOk \in BOOLEAN :
          confirmCancelScope(scope, ioOk, netOk)
    \/ \E scope \in CancelScopes, ioOk, netOk \in BOOLEAN :
          confirmCancelScopeStale(scope, ioOk, netOk)

SpecCancel == Init /\ [][NextCancel]_vars

\* a session that only looks at the calendar and marks jobs done, in a
\* browser whose mirror may hold the jobs of an earlier session in local mode
\* whatever the startup probe found this time
InitViewer ==
    /\ apiAvailable \in BOOLEAN
    /\ tz \in TzOffsets
    /\ \E seeded \in BOOLEAN :
          /\ remote = IF apiAvailable /\ seeded THEN SeedRows ELSE {}
          /\ nextId = IF apiAvailable /\ seeded THEN Len(SeedJobs) + 1 ELSE 1
    /\ local \in {<<>>, SeedMirror}
    /\ InitClient

NextViewer ==
    \/ Tick
    \/ \E resp \in ListResponses, readOk \in BOOLEAN : FetchEvents(resp, readOk)
    \/ \E event \in calendar : openJobDetails(event)
    \/ closeJobDetails
    \/ \E ioOk, netOk \in BOOLEAN : markJobAsDone(ioOk, netOk)

SpecViewer == InitViewer /\ [][NextViewer]_vars

\* how the request of initializeAPI ends (script.js:391-408)
ProbeResponses == {"ok", "status500", "networkError"}

\* a probe that takes any answer for a connection
ProbeAvailableAlways(probe) == TRUE

\* response.ok of a request that was answered (script.js:397-407)
ProbeAvailable(probe) == probe = "ok"

\* the page before DOMContentLoaded: apiAvailable as declared
\* (script.js:384), the table as earlier sessions left it, the mirror as an
\* earlier session in local mode left it
InitBoot ==
    /\ apiAvailable = FALSE
    /\ tz \in TzOffsets
    /\ remote = SeedRows
    /\ nextId = Len(SeedJobs) + 1
    /\ local = SeedMirror
    /\ writes = 0
    /\ now = 1
    /\ calendar = {}
    /\ ui = "loading"
    /\ currentEventId = Null
    /\ currentRecurringId = Null
    /\ isEditMode = FALSE
    /\ editScope = "single"
    /\ selectedJobType = ""
    /\ detailsStatus = "pending"
    /\ wizardRecurring = FALSE
    /\ recurringLocked = FALSE
    /\ pendingEditEvent = Null
    /\ pendingCancelRecurringId = Null
    /\ pendingCancelDate = Null
    /\ pendingCancelIsRecurring = FALSE
    /\ scopeButtons = FALSE
    /\ last = NoLast
    /\ inflight = [c \in Clients |-> NoRequest]

\* initializeAPI() awaited by the DOMContentLoaded handler, which then
\* renders the calendar and attaches the listeners (script.js:390-409,
\* 1766-1811)
initializeAPI(probe) ==
    /\ ui = "loading"
    /\ apiAvailable' = IF ProbeAvailable(probe) THEN TRUE ELSE apiAvailable
    /\ ui' = "calendar"
    /\ last' = [NoLast EXCEPT !.op = "probe", !.probe = <<probe>>]
    /\ UNCHANGED <<tz, inflight, writes, now, remote, nextId, local, calendar, clientVars>>

\* a session from the loading of the page
NextSession ==
    \/ \E probe \in ProbeResponses : initializeAPI(probe)
    \/ Next

SpecSession == InitBoot /\ [][NextSession]_vars

(***************************************************************************)
(* The jobs API serving several clients (part_000:190-405)                 *)
(***************************************************************************)
\* the table the clients share: the series an earlier session left and a
\* one-off job scheduled since
ServerRows ==
    HandlePost(SeedRows, Len(SeedJobs) + 1,
               BuildJobs(Filled(224, FALSE, "weekly", 0), "hedge", FALSE, 1)).rows

\* what the clients ask for: ids and series that are stored and that are not
\* (any longer), the cutoff of the second occurrence of the series, a PUT body
RequestIds == {<<2>>, <<Len(SeedJobs) + 1>>, <<Len(SeedJobs) + 2>>}
RequestSeries == {<<0>>, <<1>>}
RequestCutoffs == {toISOString(ParseLocal(SeedJobs[2].start_time))}
RequestBodies ==
    {SharedData(BuildJob(Filled(57, FALSE, "weekly", 0), "hedge", TRUE, 1, 0))}
\* the routes of part_000 and the status routes of the API as deployed
\* (src/netlify/functions/jobs.js:134-215)
DeleteRoutes == {"delete", "delete-future", "delete-series"}
StatusRoutes == {"done", "cancel", "cancel-future", "cancel-series"}
Routes == DeleteRoutes \cup StatusRoutes \cup {"put-series"}
\* the routes that take :id, and the status a status route writes
SingleRoutes == {"delete", "done", "cancel"}
RouteStatus(route) == IF route = "done" THEN "done" ELSE "cancelled"

InitServer ==
    /\ apiAvailable = TRUE
    /\ tz \in TzOffsets
    /\ remote = ServerRows
    /\ nextId = Len(SeedJobs) + 2
    /\ local = <<>>
    /\ InitClient

serverFrame ==
    <<apiAvailable, tz, writes, now, nextId, local, calendar, ui, clientVars, last>>

\* the first request a route makes to the table: the select of the rows to
\* write (part_000:253, 294, 321-323, 350)
SelectedIds(route, arg, from) ==
    CASE route \in SingleRoutes -> {r.id : r \in {x \in remote : x.id = arg}}
      [] route \in {"delete-future", "cancel-future"} -> SelectFuture(remote, arg, from[1])
      [] OTHER -> SelectSeries(remote, arg)

\* how a call of the calendar sync ends: the credentials are not set
\* (part_000:144-147, 164-166), the event was created or deleted, the
\* calendar answered non-2xx, the request or the token exchange threw
\* (part_000:110-113, 157-160, 171-173)
CalendarOutcomes == {"unconfigured", "synced", "httpError", "exception"}

\* createCalendarEvent(job) (part_000:143-161): created.id, or null
createCalendarEvent(job, outcome) == IF outcome = "synced" THEN <<job.id[1]>> ELSE Null

\* what the 500 of the handler's catch carries (part_000:397-404)
ErrorResponse(req) ==
    [req EXCEPT !.pc = "done", !.status = 500,
                !.body = <<Failed(remote, "status500").body[1]>>]

\* the handler is entered and has the answer to its select
Receive(c, route, arg, from, shared) ==
    /\ inflight[c].pc = "idle"
    /\ arg \in IF route \in SingleRoutes THEN RequestIds ELSE RequestSeries
    /\ from \in IF route \in {"delete-future", "cancel-future"}
                THEN {<<f>> : f \in RequestCutoffs} ELSE {Null}
    /\ shared \in IF route = "put-series" THEN {<<b>> : b \in RequestBodies} ELSE {Null}
    /\ inflight' = [inflight EXCEPT ![c] =
          [NoRequest EXCEPT !.route = route, !.pc = "loop", !.arg = arg, !.from = from,
                            !.shared = shared,
                            !.seq = 1 + Cardinality({d \in Clients : inflight[d].pc # "idle"}),
                            !.matched = Cardinality(SelectedIds(route, arg, from)),
                            !.eventIds = {r.id : r \in {x \in remote :
                                             /\ x.id \in SelectedIds(route, arg, from)
                                             /\ x.google_event_id # Null}},
                            \* a write by :id is sent whatever is stored
                            !.ids = IF route \in SingleRoutes THEN {arg}
                                    ELSE SelectedIds(route, arg, from)]]
    /\ UNCHANGED <<remote, serverFrame>>

\* one pass of the loop: the DELETE or PATCH of jobs?id=eq.<id>, count++
\* (part_000:256-262, 303-307, 326-337, 353-364; jobs.js:138-142, 161-168,
\* 184-191, 204-208)
\* the delete routes first call deleteCalendarEvent for a selected row that
\* had a google_event_id (part_000:298-300, 327-330, 354-357); it returns
\* whatever the calendar answered (part_000:163-174).  When the table
\* refuses the write supabaseRequest throws (part_000:32-35) and the catch
\* of the handler answers (part_000:397-404)
WriteRow(c, id, outcome, writeOk) ==
    /\ inflight[c].pc = "loop"
    /\ inflight[c].route # "post"
    /\ id \in inflight[c].ids
    /\ outcome \in IF inflight[c].route \in DeleteRoutes /\ id \in inflight[c].eventIds
                   THEN CalendarOutcomes ELSE {"none"}
    /\ LET req == [inflight[c] EXCEPT !.syncs = @ + (IF outcome = "none" THEN 0 ELSE 1)]
       IN IF writeOk
          THEN /\ remote' =
                    CASE req.route = "put-series" ->
                           {IF r.id = id THEN PatchShared(r, req.shared[1]) ELSE r :
                               r \in remote}
                      [] req.route \in StatusRoutes ->
                           {IF r.id = id THEN [r EXCEPT !.status = RouteStatus(req.route)]
                            ELSE r : r \in remote}
                      [] OTHER -> DeleteRow(remote, id)
               /\ inflight' = [inflight EXCEPT ![c] =
                     [req EXCEPT !.ids = @ \ {id},
                                 !.count = @ + 1,
                                 !.did = @ + Cardinality({r \in remote : r.id = id})]]
          ELSE /\ remote' = remote
               /\ inflight' = [inflight EXCEPT ![c] = ErrorResponse(req)]
    /\ UNCHANGED serverFrame

\* the 200 response (part_000:265-269, 309-313, 339-343, 366-370)
Respond(c) ==
    /\ inflight[c].pc = "loop"
    /\ inflight[c].ids = {}
    /\ LET req == inflight[c]
       IN inflight' = [inflight EXCEPT ![c] =
             [req EXCEPT !.pc = "done",
                         !.status = IF req.route = "post" THEN 201 ELSE 200,
                         !.body = CASE req.route = "post" ->
                                         <<HandlePost({}, 1, req.jobs).body>>
                                    [] req.route = "delete" ->
                                         <<HandleDelete(remote, req.arg).body>>
                                    [] req.route = "done" ->
                                         <<HandleDone(remote, req.arg).body>>
                                    [] req.route = "cancel" ->
                                         <<HandleCancel(remote, req.arg).body>>
                                    [] req.route = "put-series" ->
                                         <<[updated |-> <<req.count>>]>>
                                    [] req.route \in {"cancel-future", "cancel-series"} ->
                                         <<[cancelled |-> <<req.count>>]>>
                                    [] OTHER -> <<[deleted |-> <<req.count>>]>>]]
    /\ UNCHANGED <<remote, serverFrame>>

\* the jobs a client posts: a series of two
RequestJobs == {BuildJobs(Filled(224, TRUE, "weekly", 2), "hedge", FALSE, 1)}

syncFrame == <<apiAvailable, tz, writes, now, local, calendar, ui, clientVars, last>>

\* POST /api/jobs: the insert of the submitted jobs (part_000:217-226)
ReceivePost(c, jobs, insertOk) ==
    /\ inflight[c].pc = "idle"
    /\ nextId - 1 + Len(jobs) <= MaxJobs
    /\ LET req == [NoRequest EXCEPT
                      !.route = "post", !.jobs = jobs,
                      !.seq = 1 + Cardinality({d \in Clients : inflight[d].pc # "idle"})]
       IN IF insertOk
          THEN /\ remote' = HandlePost(remote, nextId, jobs).rows
               /\ nextId' = nextId + Len(jobs)
               /\ inflight' = [inflight EXCEPT ![c] =
                     [req EXCEPT !.pc = "loop", !.inserted = Len(jobs),
                                 !.matched = Len(jobs),
                                 !.created = {<<nextId + k - 1>> : k \in 1..Len(jobs)},
                                 !.ids = {<<nextId + k - 1>> : k \in 1..Len(jobs)}]]
          ELSE /\ inflight' = [inflight EXCEPT ![c] = ErrorResponse(req)]
               /\ UNCHANGED <<remote, nextId>>
    /\ UNCHANGED syncFrame

\* one pass of `for (const job of created)` (part_000:228-238): the job is
\* synced and, when an event was created, its id is saved on the row
SyncCreated(c, id, outcome, patchOk) ==
    /\ inflight[c].pc = "loop"
    /\ inflight[c].route = "post"
    /\ id \in inflight[c].ids
    /\ \A other \in inflight[c].ids : id[1] <= other[1]
    /\ LET googleEventId == createCalendarEvent([id |-> id], outcome)
           req == [inflight[c] EXCEPT
                      !.syncs = @ + 1,
                      !.events = IF googleEventId = Null THEN @
                                 ELSE @ \cup {<<id, googleEventId[1]>>}]
       IN /\ (googleEventId = Null) => patchOk
          /\ IF googleEventId # Null /\ ~patchOk
             THEN /\ inflight' = [inflight EXCEPT ![c] = ErrorResponse(req)]
                  /\ remote' = remote
             ELSE /\ inflight' = [inflight EXCEPT ![c] = [req EXCEPT !.ids = @ \ {id}]]
                  /\ remote' = IF googleEventId = Null THEN remote
                               ELSE {IF r.id = id
                                     THEN [r EXCEPT !.google_event_id = googleEventId]
                                     ELSE r : r \in remote}
    /\ UNCHANGED <<nextId, syncFrame>>

\* the jobs API with the calendar sync, on a table that starts empty
InitSync ==
    /\ apiAvailable = TRUE
    /\ tz \in TzOffsets
    /\ remote = {}
    /\ nextId = 1
    /\ local = <<>>
    /\ InitClient

NextSync ==
    \/ \E c \in Clients, jobs \in RequestJobs, insertOk \in BOOLEAN :
          ReceivePost(c, jobs, insertOk)
    \/ \E c \in Clients, id \in {<<n>> : n \in 1..MaxJobs},
          outcome \in CalendarOutcomes, patchOk \in BOOLEAN :
          SyncCreated(c, id, outcome, patchOk)
    \/ \E c \in Clients, route \in DeleteRoutes,
          arg \in RequestIds \cup RequestSeries,
          from \in {Null} \cup {<<f>> : f \in RequestCutoffs} :
          Receive(c, route, arg, from, Null)
    \/ \E c \in Clients, id \in RequestIds \cup {<<n>> : n \in 1..MaxJobs},
          outcome \in CalendarOutcomes \cup {"none"}, writeOk \in BOOLEAN :
          WriteRow(c, id, outcome, writeOk)
    \/ \E c \in Clients : Respond(c)

SpecSync == InitSync /\ [][NextSync]_vars

NextServer ==
    \/ \E c \in Clients, route \in Routes,
          arg \in RequestIds \cup RequestSeries,
          from \in {Null} \cup {<<f>> : f \in RequestCutoffs},
          shared \in {Null} \cup {<<b>> : b \in RequestBodies} :
          Receive(c, route, arg, from, shared)
    \/ \E c \in Clients, id \in RequestIds \cup {r.id : r \in ServerRows},
          outcome \in CalendarOutcomes \cup {"none"}, writeOk \in BOOLEAN :
          WriteRow(c, id, outcome, writeOk)
    \/ \E c \in Clients : Respond(c)

SpecServer == InitServer /\ [][NextServer]_vars

(***************************************************************************)
(* Scheduling (spec section 2)                                             *)
(***************************************************************************)
\* C1: a create-mode save with recurrence requested, N >= 2 occurrences and
\* frequency weekly, biweekly or monthly builds exactly N records; record i
\* (from 0) starts i * 7, i * 14 or i * 30 days after the submitted date, all
\* carry one non-null recurring_id and is_recurring, and occurrence_number
\* is i + 1.
C1_RecurringSeriesBuilt ==
    (last.op = "create" /\ last.form[1].isRecurring) =>
        LET form == last.form[1]
            days == CASE form.frequency = "weekly" -> 7
                      [] form.frequency = "biweekly" -> 14
                      [] form.frequency = "monthly" -> 30
        IN /\ form.occurrences >= 2
           /\ Len(last.jobs) = form.occurrences
           /\ \A k \in 1..Len(last.jobs) :
                 /\ last.jobs[k].start_time = form.date[1] + 24 * days * (k - 1)
                 /\ last.jobs[k].recurring_id # Null
                 /\ last.jobs[k].recurring_id = last.jobs[1].recurring_id
                 /\ last.jobs[k].is_recurring
                 /\ last.jobs[k].occurrence_number = k

\* a monthly series of MaxOccurrences jobs has been built and stored
C1_Witness ==
    /\ last.op = "create" /\ last.stored
    /\ last.form[1].isRecurring
    /\ last.form[1].frequency = "monthly"
    /\ Len(last.jobs) = MaxOccurrences
    /\ Cardinality(Jobs) >= MaxOccurrences

\* C2: a create-mode save without recurrence, whatever the occurrences field
\* holds, builds exactly one record, with recurring_id null, is_recurring
\* false, occurrence_number 1 and start_time the submitted date.
C2_SingleJobBuilt ==
    (last.op = "create" /\ ~last.form[1].isRecurring) =>
        /\ Len(last.jobs) = 1
        /\ last.jobs[1].recurring_id = Null
        /\ ~last.jobs[1].is_recurring
        /\ last.jobs[1].occurrence_number = 1
        /\ last.jobs[1].start_time = last.form[1].date[1]

\* a one-off job was stored from a form whose occurrences field held MaxOccurrences
C2_Witness ==
    /\ last.op = "create" /\ last.stored
    /\ ~last.form[1].isRecurring
    /\ last.form[1].occurrences = MaxOccurrences
    /\ Cardinality(last.before) + 1 = Cardinality(Jobs)

\* the rule of spec section 2: a required field is missing, or a series of
\* fewer than two occurrences is asked for
C3_Incomplete(formData, jobType) ==
    \/ formData.client = ""
    \/ jobType = ""
    \/ formData.address = ""
    \/ formData.price = ""
    \/ formData.date = Null
    \/ formData.isRecurring /\ formData.occurrences < 2

\* C3: a save with a required field (client, job type, address, price, date)
\* missing, or with recurrence requested for fewer than 2 occurrences, aborts
\* before persistence: no store function is called, and both stores,
\* isEditMode and editScope are as they were.
C3_InvalidSaveAborts ==
    [][ (last'.form # Null /\ C3_Incomplete(last'.form[1], selectedJobType')) =>
            /\ last'.op = "invalid"
            /\ writes' = writes
            /\ remote' = remote /\ nextId' = nextId
            /\ local' = local
            /\ isEditMode' = isEditMode
            /\ editScope' = editScope ]_vars

\* an invalid save was made while editing all of a series
C3_Witness ==
    /\ last.op = "invalid"
    /\ isEditMode
    /\ editScope = "all"
    /\ ui = "wizard"

\* C4: every recurring submission gets a fresh series identifier: the
\* recurring_id of a stored series is shared with no job that an earlier
\* submission stored.
C4_FreshSeriesId ==
    (last.op = "create" /\ last.stored /\ last.form[1].isRecurring) =>
        \A j \in last.before : j.recurring_id # last.jobs[1].recurring_id

(***************************************************************************)
(* Scope resolution and deletion (spec sections 3 and 4)                   *)
(***************************************************************************)
\* the full records of the store the session writes to
Stored == IF apiAvailable THEN remote ELSE {local[k] : k \in 1..Len(local)}

\* no calendar event with the selected id is an occurrence of a series
C5_NonRecurringSelected ==
    /\ currentEventId # Null
    /\ \A e \in EventsById(currentEventId) : ~e.is_recurring

\* C5: a cancel or edit request on a job whose is_recurring is false offers
\* no scope choice and ends in a single-occurrence delete or update of that
\* job; no future-scope or series-scope delete or update touches such a job.
C5_NonRecurringSingleOnly ==
    [][ /\ (ui = "details" /\ C5_NonRecurringSelected) =>
              /\ ui' = "cancelModal" => ~scopeButtons'
              /\ ui' # "editScope"
              /\ ui' = "wizard" =>
                    (isEditMode' /\ editScope' = "single" /\ currentRecurringId' = Null)
        /\ (ui = "cancelModal" /\ ~scopeButtons /\ writes' # writes) =>
              (last'.op = "deleteSingle" /\ last'.id = currentEventId)
        /\ (ui = "wizard" /\ isEditMode /\ currentRecurringId = Null /\ writes' # writes) =>
              (last'.op = "update" /\ last'.id = currentEventId)
        /\ last'.op \in {"deleteFuture", "deleteSeries", "updateAll"} =>
              /\ last'.rid # Null
              /\ \A r \in Stored : ~r.is_recurring => r \in Stored' ]_vars

\* the cancel of a one-off job ended in the delete of that job alone
C5_Witness ==
    /\ last.op = "deleteSingle" /\ last.stored /\ last.scope = "single"
    /\ ~scopeButtons
    /\ Cardinality(last.removed) = 1
    /\ \A j \in last.removed : ~j.is_recurring /\ j.id = currentEventId
    /\ Jobs # {}

\* C6: a future-scope delete requested on occurrence o of series R removes
\* exactly the jobs with recurring_id R whose start_time is not before o's
\* start_time (o itself included), in local and in remote mode.
C6_FutureScopeTargets ==
    (last.op = "deleteFuture" /\ last.stored) =>
        last.removed = {j \in last.before :
                           /\ j.recurring_id = last.rid
                           /\ j.start >= formatLocalDateTime(last.from[1])}

\* C7: a series-scope delete on series R removes every stored job whose
\* recurring_id is R, whatever its start_time and status, and leaves every
\* other job as it was.
C7_SeriesScopeTargets ==
    [][ (last'.op = "deleteSeries" /\ last'.stored) =>
            /\ last'.rid = pendingCancelRecurringId
            /\ Stored' = {r \in Stored : r.recurring_id # last'.rid}
            /\ local' = SelectSeq(local, LAMBDA j : apiAvailable \/ j.recurring_id # last'.rid)
      ]_vars

\* a series with a pending, a done and a cancelled job was deleted and a job
\* outside the series is still stored
C7_Witness ==
    /\ last.op = "deleteSeries" /\ last.stored
    /\ {j.status : j \in last.removed} = Statuses
    /\ \A j \in last.removed : j.recurring_id = last.rid
    /\ Jobs # {}

C9_NoMatchReportsZero ==
    \A c \in Clients :
        (/\ inflight[c].pc = "done"
         /\ inflight[c].route \in {"delete", "delete-future", "delete-series"}
         /\ inflight[c].status = 200
         /\ inflight[c].matched = 0) =>
            /\ inflight[c].did = 0
            /\ inflight[c].body # Null
            /\ inflight[c].body[1].deleted = <<0>>

\* C10: the count a future-scope or series-scope delete, or a series-wide
\* update, returns is the number of jobs that this call removed or updated,
\* also when two such requests for one series overlap.
C10_CountIsEffect ==
    \A c \in Clients :
        (/\ inflight[c].pc = "done"
         /\ inflight[c].route \in {"delete-future", "delete-series", "put-series"}
         /\ inflight[c].status = 200) =>
            LET body == inflight[c].body[1]
            IN IF inflight[c].route = "put-series"
               THEN body.updated = <<inflight[c].did>>
               ELSE body.deleted = <<inflight[c].did>>

(***************************************************************************)
(* Job status (spec section 1)                                             *)
(***************************************************************************)
\* C11: over any sequence of operations a job's status only changes from
\* pending to done or from pending to cancelled; the status of a done or
\* cancelled job never changes again.
C11_StatusForward ==
    [][ \A r \in remote : \A s \in remote' :
            (s.id = r.id /\ s.status # r.status) => r.status = "pending" ]_vars

(***************************************************************************)
(* Series (spec section 1)                                                 *)
(***************************************************************************)
\* C12: in every reachable state of the job store, every job with
\* is_recurring true has a non-null recurring_id that at least one other
\* stored job carries too.
C12_RecurringShared ==
    \A r \in Stored :
        r.is_recurring =>
            /\ r.recurring_id # Null
            /\ \E o \in Stored : o.id # r.id /\ o.recurring_id = r.recurring_id

\* C13: in every reachable state, the jobs sharing a recurring_id have
\* pairwise distinct occurrence numbers, and a later occurrence starts later
\* than an earlier one by the series' interval times the difference of their
\* numbers.  The local mirror keeps no occurrence_number and no interval:
\* there the occurrences are numbered by their order in the array, and the
\* interval is one of CONFIG.recurrence.
C13_SeriesOrdered ==
    /\ \A r, s \in remote :
          (r.recurring_id # Null /\ r.recurring_id = s.recurring_id /\ r.id # s.id) =>
              /\ r.occurrence_number # s.occurrence_number
              /\ r.occurrence_number < s.occurrence_number =>
                    s.start_time - r.start_time =
                        24 * r.recurrence_pattern[2]
                           * (s.occurrence_number - r.occurrence_number)
    /\ \A i, j \in 1..Len(local) :
          (i < j /\ local[i].recurring_id # Null
                 /\ local[i].recurring_id = local[j].recurring_id) =>
              /\ local[i].start < local[j].start
              /\ \E f \in Frequencies :
                    (local[j].start - local[i].start) % (24 * IntervalDays(f)) = 0

\* C14: a series-wide edit of series R sets title, job_type, notes, price,
\* address and client_phone on every job with recurring_id R, leaves the
\* start_time, status, occurrence_number and recurring_id of those jobs as
\* they were, leaves every job outside R as it was, and returns the number
\* of jobs in R.
C14_SeriesEditFrame ==
    [][ (last'.op = "updateAll" /\ last'.stored) =>
            LET R == last'.rid
                data == last'.jobs[1]
            IN /\ R = currentRecurringId
               /\ apiAvailable =>
                     /\ {s.id : s \in remote'} = {r.id : r \in remote}
                     /\ Cardinality(remote') = Cardinality(remote)
                     /\ \A r \in remote : \A s \in remote' :
                           s.id = r.id =>
                              IF r.recurring_id = R
                              THEN /\ s.title = data.title
                                   /\ s.job_type = data.job_type
                                   /\ s.notes = data.notes
                                   /\ s.price = data.price
                                   /\ s.address = data.address
                                   /\ s.client_phone = data.client_phone
                                   /\ s.start_time = r.start_time
                                   /\ s.status = r.status
                                   /\ s.occurrence_number = r.occurrence_number
                                   /\ s.recurring_id = r.recurring_id
                              ELSE s = r
                     /\ last'.count = <<Cardinality({r \in remote : r.recurring_id = R})>>
               /\ ~apiAvailable =>
                     /\ Len(local') = Len(local)
                     /\ \A k \in 1..Len(local) :
                           IF local[k].recurring_id = R
                           THEN /\ local'[k].title = data.title
                                /\ local'[k].type = data.job_type
                                /\ local'[k].notes = data.notes
                                /\ local'[k].price = data.price
                                /\ local'[k].address = data.address
                                /\ local'[k].phone = data.client_phone
                                /\ local'[k].start = local[k].start
                                /\ local'[k].status = local[k].status
                                /\ local'[k].recurring_id = local[k].recurring_id
                                /\ local'[k].id = local[k].id
                           ELSE local'[k] = local[k]
                     /\ last'.count = <<Cardinality({k \in 1..Len(local) :
                                                        local[k].recurring_id = R})>>
      ]_vars

\* a series holding a pending, a done and a cancelled job was edited as a
\* whole, to another job type, while a job outside the series is stored
C14_Witness ==
    /\ last.op = "updateAll" /\ last.stored
    /\ last.count = <<3>>
    /\ {j.status : j \in {x \in Jobs : x.recurring_id = last.rid}} = Statuses
    /\ \E j \in Jobs : j.recurring_id # last.rid
    /\ last.jobs[1].job_type = "hedge"
    /\ \A r \in Stored :
          r.recurring_id = last.rid => r.title = EventTitle(last.form[1], "hedge")

(***************************************************************************)
(* Remote availability and fallback (spec section 5)                       *)
(***************************************************************************)
\* C15: when the remote list request fails (non-2xx, network error, abort
\* after the timeout, unparsable body), fetchEvents never calls
\* failureCallback and calls successCallback exactly once, with the jobs of
\* the local mirror, an empty list when the mirror cannot be read.
C15_ListFallsBack ==
    (last.op = "fetch" /\ last.fetch[1].failed) =>
        LET calls == last.fetch[1].calls
        IN /\ Len(calls) = 1
           /\ calls[1].callback = "success"
           /\ calls[1].events = IF last.fetch[1].readable
                                THEN {LocalEvent(local[k]) : k \in 1..Len(local)}
                                ELSE {}

\* C15, amended: when the remote list request fails, fetchEvents never calls
\* failureCallback and calls successCallback exactly once; the list it hands
\* over holds the jobs of the local mirror (none when the mirror cannot be
\* read) and, for every day of the view without a job, one 'No Jobs'
\* placeholder, so it is not empty when the mirror is.
C15_ListFallsBackWithPlaceholders ==
    (last.op = "fetch" /\ last.fetch[1].failed) =>
        LET calls == last.fetch[1].calls
            mirror == IF last.fetch[1].readable
                      THEN {LocalEvent(local[k]) : k \in 1..Len(local)}
                      ELSE {}
        IN /\ Len(calls) = 1
           /\ calls[1].callback = "success"
           /\ {e \in calls[1].events : e.id # Null} = mirror
           /\ {e \in calls[1].events : e.id = Null} =
                 {EmptyDay(d) : d \in {x \in ViewDays :
                                          \A e \in mirror : EventDay(e) # x}}
           /\ calendar = mirror

\* the list request failed in remote mode while both the table and the
\* mirror hold jobs, and the calendar shows the jobs of the mirror
C15_Witness ==
    /\ last.op = "fetch" /\ apiAvailable
    /\ last.fetch[1].failed
    /\ last.fetch[1].readable
    /\ remote # {}
    /\ Len(local) = Len(SeedJobs)
    /\ {e.id : e \in calendar} = {local[k].id : k \in 1..Len(local)}
    /\ \E e \in last.fetch[1].calls[1].events : e.id = Null

\* C16: apiAvailable is decided by the startup probe alone: it is false
\* unless the probe received a 2xx response, and once the page is up no
\* outcome of a later request (network failure, non-2xx response, list
\* timeout) changes it.
C16_ProbeDecidesMode ==
    [][ /\ ui = "loading" => ~apiAvailable
        /\ last'.op = "probe" => (apiAvailable' <=> last'.probe = <<"ok">>)
        /\ ui # "loading" => apiAvailable' = apiAvailable ]_vars

\* after a probe that was answered 2xx, a write and then a list request have
\* failed, and the session is still in remote mode
C16_Witness ==
    /\ apiAvailable
    /\ writes > 0
    /\ last.op = "fetch" /\ last.fetch[1].failed

\* C17: every write operation writes to exactly one store, chosen by
\* apiAvailable: in local mode it works on the local mirror and the remote
\* table gets no request; in remote mode it sends its request to the jobs
\* API and the local mirror is not modified.
C17_OneStorePerWrite ==
    [][ /\ writes' # writes =>
              /\ last'.mode = Mode
              /\ apiAvailable => local' = local
              /\ ~apiAvailable => (remote' = remote /\ nextId' = nextId)
        /\ local' # local => (~apiAvailable /\ writes' # writes)
        /\ remote' # remote => (apiAvailable /\ writes' # writes) ]_vars

\* a series was deleted from the table in remote mode while the mirror
\* still holds the jobs of that series
C17_Witness ==
    /\ apiAvailable
    /\ last.op = "deleteSeries" /\ last.stored /\ last.nRemoved = Len(SeedJobs)
    /\ \A r \in remote : r.recurring_id # last.rid
    /\ Len(local) = Len(SeedJobs)
    /\ \A k \in 1..Len(local) : local[k].recurring_id = last.rid

C19_LocalFailureWarned ==
    [][ (writes' # writes /\ ~apiAvailable /\ last'.warned) =>
            /\ local' = local
            /\ last'.modal = "warning" ]_vars

(***************************************************************************)
(* Calendar sync (spec section 6)                                          *)
(***************************************************************************)
\* C20: whatever the calendar sync does (event created or deleted, HTTP
\* error, exception, credentials not set), a create request stores all the
\* submitted jobs and a delete request removes the targeted job, the result
\* reported depends on the insert or delete in the jobs table alone, and no
\* sync call is made a second time.
C20_SyncBestEffort ==
    \A c \in Clients :
        inflight[c].pc = "done" =>
            /\ inflight[c].route = "post" =>
                  IF inflight[c].inserted = Len(inflight[c].jobs)
                  THEN /\ inflight[c].status = 201
                       /\ inflight[c].body[1] = [created |-> <<Len(inflight[c].jobs)>>]
                  ELSE inflight[c].status = 500 /\ inflight[c].inserted = 0
            /\ inflight[c].route = "delete" =>
                  \* ids is not empty when the row delete itself was refused
                  /\ inflight[c].status = IF inflight[c].ids = {} THEN 200 ELSE 500
                  /\ (inflight[c].matched > 0 /\ inflight[c].ids = {}) =>
                        \A r \in remote : r.id # inflight[c].arg
            /\ inflight[c].syncs <= inflight[c].matched

\* C21: once a create request has been answered, every job it created that
\* is stored carries in google_event_id exactly the event id its
\* createCalendarEvent returned, and no google_event_id when the sync
\* returned none or was not reached.
C21_EventIdSaved ==
    \A c \in Clients :
        (inflight[c].pc = "done" /\ inflight[c].route = "post") =>
            \A r \in remote :
                r.id \in inflight[c].created =>
                    r.google_event_id \in
                        IF \E e \in inflight[c].events : e[1] = r.id
                        THEN {<<e[2]>> : e \in {x \in inflight[c].events : x[1] = r.id}}
                        ELSE {Null}

\* C22: a delete route calls deleteCalendarEvent exactly once, ahead of the
\* row delete, for each targeted job whose row carries a google_event_id,
\* and not at all for a job whose row carries none.
C22_CalendarDeleteBeforeRow ==
    [][\A c \in Clients :
          (inflight[c].route \in DeleteRoutes /\ inflight'[c].count = inflight[c].count + 1) =>
              \A id \in inflight[c].ids \ inflight'[c].ids :
                  inflight'[c].syncs - inflight[c].syncs =
                      IF \E r \in remote : r.id = id /\ r.google_event_id # Null
                      THEN 1 ELSE 0]_vars

(***************************************************************************)
(* Failures (spec section 7)                                               *)
(***************************************************************************)
\* C23: when a per-row bulk route (future or series scope) fails at a row
\* after it has written earlier rows, the response carries the count of the
\* rows written so far.
C23_PartialCountReported ==
    \A c \in Clients :
        (/\ inflight[c].pc = "done"
         /\ inflight[c].route \in Routes \ SingleRoutes
         /\ inflight[c].ids # {}
         /\ inflight[c].count > 0) =>
            inflight[c].body[1] =
                CASE inflight[c].route = "put-series" -> [updated |-> <<inflight[c].count>>]
                  [] inflight[c].route \in StatusRoutes -> [cancelled |-> <<inflight[c].count>>]
                  [] OTHER -> [deleted |-> <<inflight[c].count>>]

C25_ScopeResolved ==
    [][ /\ (ui' = "cancelModal" /\ pendingCancelIsRecurring') => scopeButtons'
        /\ (ui' = "editScope" /\ pendingEditEvent' # Null) =>
               \A scope \in {"single", "future", "all"} : scope \in EditScopes
        /\ (last'.op \in {"deleteSingle", "deleteFuture", "deleteSeries"} /\ last'.stored) =>
               /\ ui = "cancelModal"
               /\ last'.removed =
                     CASE last'.scope = "single" ->
                            {j \in last'.before : j.id = currentEventId}
                       [] last'.scope = "future" ->
                            {j \in last'.before :
                                /\ j.recurring_id = pendingCancelRecurringId
                                /\ j.start >= formatLocalDateTime(pendingCancelDate[1])}
                       [] OTHER ->
                            {j \in last'.before : j.recurring_id = pendingCancelRecurringId}
        /\ (last'.op \in {"update", "updateAll"} /\ last'.stored
                /\ currentRecurringId # Null) =>
               /\ ui = "wizard" /\ isEditMode
               /\ \A r \in Stored :
                     (IF editScope = "all" THEN r.recurring_id # currentRecurringId
                      ELSE r.id # currentEventId) => r \in Stored'
      ]_vars

\* C26: when a cancel interaction has ended, by confirmCancelScope (served
\* or failed) or by closeCancelModal, pendingCancelRecurringId and
\* pendingCancelDate are null and pendingCancelIsRecurring is false; and a
\* scope confirmation that arrives while no cancel is pending changes no job.
C26_NoStateAfterCancel ==
    [][ /\ (ui = "cancelModal" /\ ui' # "cancelModal") =>
               /\ pendingCancelRecurringId' = Null
               /\ pendingCancelDate' = Null
               /\ pendingCancelIsRecurring' = FALSE
        /\ (ui # "cancelModal" /\ last'.scope # "") =>
               /\ remote' = remote
               /\ local' = local
      ]_vars

(***************************************************************************)
(* Per-row loops and predicate updates (spec section 9)                    *)
(***************************************************************************)
\* the table after request req is applied to rows in one step, a scope by
\* its predicate
C27_AtomicApply(req, rows) ==
    CASE req.route = "put-series" -> HandlePutSeriesBulk(rows, req.arg, req.shared[1]).rows
      [] req.route = "cancel-future" ->
             HandleCancelFutureBulk(rows, req.arg, req.from[1]).rows
      [] req.route = "cancel-series" -> HandleCancelSeriesBulk(rows, req.arg).rows
      [] req.route = "cancel" -> HandleCancel(rows, req.arg).rows
      [] req.route = "done" -> HandleDone(rows, req.arg).rows
      [] req.route = "delete" -> HandleDelete(rows, req.arg).rows
      [] req.route = "delete-future" -> HandleDeleteFuture(rows, req.arg, req.from[1]).rows
      [] req.route = "delete-series" -> HandleDeleteSeries(rows, req.arg).rows
      [] OTHER -> rows

\* the table after the requests that arrived k-th and later are applied to
\* rows, each in one step, in the order of their arrival
RECURSIVE C27_AtomicFrom(_, _)
C27_AtomicFrom(rows, k) ==
    IF k > MaxClients THEN rows
    ELSE LET cs == {c \in Clients : inflight[c].seq = k}
         IN IF cs = {} THEN rows
            ELSE C27_AtomicFrom(C27_AtomicApply(inflight[CHOOSE c \in cs : TRUE], rows), k + 1)

\* C27: when every request has been answered without a failure, the table
\* the per-row loops leave is the table that results from applying each
\* request in one step, to the jobs that match its predicate when it arrives,
\* also when the requests were served interleaved.
C27_LoopRefinesBulk ==
    (/\ \A c \in Clients : inflight[c].pc \in {"idle", "done"}
                            /\ inflight[c].status \in {0, 200}
     /\ \E c \in Clients : inflight[c].route \in {"put-series", "cancel-future",
                                                    "cancel-series", "delete-future",
                                                    "delete-series"}) =>
        remote = C27_AtomicFrom(ServerRows, 1)

(***************************************************************************)
(* Editing (spec section 2)                                                *)
(***************************************************************************)
\* C28: a single-occurrence edit leaves the status, recurring_id,
\* is_recurring, recurrence_pattern and occurrence_number of the edited job
\* as they were and leaves every other job as it was, in remote mode as in
\* local mode (the mirror keeps no recurrence_pattern and no
\* occurrence_number).
C28_SingleEditFrame ==
    [][ (last'.op = "update" /\ last'.stored) =>
            /\ apiAvailable =>
                  \A r \in remote : \E s \in remote' :
                      /\ s.id = r.id
                      /\ IF r.id = currentEventId
                         THEN /\ s.status = r.status
                              /\ s.recurring_id = r.recurring_id
                              /\ s.is_recurring = r.is_recurring
                              /\ s.recurrence_pattern = r.recurrence_pattern
                              /\ s.occurrence_number = r.occurrence_number
                         ELSE s = r
            /\ ~apiAvailable =>
                  /\ Len(local') = Len(local)
                  /\ \A k \in 1..Len(local) :
                        IF local[k].id = currentEventId
                        THEN /\ local'[k].status = local[k].status
                             /\ local'[k].recurring_id = local[k].recurring_id
                             /\ local'[k].is_recurring = local[k].is_recurring
                        ELSE local'[k] = local[k]
      ]_vars

\* C29: the form opened by openWizard is in create mode with scope single,
\* the form opened by editJob / selectEditScope is in edit mode, and the mode
\* and scope stay as they are while the form is open; a valid save in create
\* mode only adds jobs and leaves every stored job as it was; a valid save in
\* edit mode adds no job and updates the selected job, or its series when
\* the scope is all; after a save that succeeded isEditMode is false and
\* editScope is 'single'.
C29_ModeFixedByOpening ==
    [][ /\ (ui = "calendar" /\ ui' = "wizard") => (~isEditMode' /\ editScope' = "single")
        /\ (ui \in {"details", "editScope"} /\ ui' = "wizard") => isEditMode'
        /\ (ui = "wizard" /\ ui' = "wizard") =>
               (isEditMode' = isEditMode /\ editScope' = editScope)
        /\ (ui = "wizard" /\ writes' # writes) =>
               /\ last'.op = IF ~isEditMode THEN "create"
                             ELSE IF editScope = "all" /\ currentRecurringId # Null
                                  THEN "updateAll" ELSE "update"
               /\ ~isEditMode => /\ Stored \subseteq Stored'
                                 /\ SubSeq(local', 1, Len(local)) = local
               /\ isEditMode =>
                     /\ {r.id : r \in Stored'} = {r.id : r \in Stored}
                     /\ Len(local') = Len(local)
                     /\ \A r \in Stored :
                           (IF last'.op = "updateAll"
                            THEN r.recurring_id # currentRecurringId
                            ELSE r.id # currentEventId) => r \in Stored'
               /\ last'.ok => (~isEditMode' /\ editScope' = "single" /\ ui' = "calendar")
      ]_vars

\* a form opened by selectEditScope('all') saved the whole series, no job was
\* added, and the mode and the scope are back at their defaults
C29_Witness ==
    /\ last.op = "updateAll" /\ last.ok /\ last.stored
    /\ currentRecurringId # Null
    /\ Cardinality({r \in Stored : r.recurring_id = currentRecurringId}) > 1
    /\ ~isEditMode /\ editScope = "single" /\ ui = "calendar"

\* ---------------------------------------------------------------------
\* The edge function in front of the application
\* (src/netlify/edge-functions/auth.js). A string the function inspects is
\* a sequence of its characters; a value that may be undefined is Null or
\* <<string>>.

\* what `if (x)` and `!x` make of a string or undefined
Truthy(opt) == opt # Null /\ opt[1] # <<>>

\* authHeader.match(/^Basic (.+)$/): a header is [scheme, rest], the text
\* before and after its first space; the result is match[1] or no match
BasicMatch(header) ==
    IF header.scheme = "Basic" /\ header.rest # "" THEN <<header.rest>> ELSE Null

\* atob on the tokens the requests of the model carry; Null when it throws
atob(token) ==
    CASE token = "YTpw" -> << <<"a", ":", "p">> >>
      [] token = "YTpx" -> << <<"a", ":", "q">> >>
      [] token = "YQ==" -> << <<"a">> >>
      [] token = "YTpwOnE=" -> << <<"a", ":", "p", ":", "q">> >>
      [] OTHER -> Null

\* String.prototype.split(":")
RECURSIVE SplitFrom(_, _, _)
SplitFrom(str, i, part) ==
    IF i > Len(str) THEN <<part>>
    ELSE IF str[i] = ":" THEN <<part>> \o SplitFrom(str, i + 1, <<>>)
    ELSE SplitFrom(str, i + 1, Append(part, str[i]))
Split(str) == SplitFrom(str, 1, <<>>)

\* const [user, pass] = ... : the element, or undefined
Element(parts, i) == IF i <= Len(parts) THEN <<parts[i]>> ELSE Null

AuthCookie == [name |-> "jls_auth", value |-> <<"t", "r", "u", "e">>, maxAge |-> 2592000]

Forward(setCookie) ==
    [next |-> TRUE, status |-> 0, body |-> Null, setCookie |-> setCookie]
EdgeResponse(status, body) ==
    [next |-> FALSE, status |-> status, body |-> <<body>>, setCookie |-> Null]

\* the default export (auth.js:1-53)
auth(authCookie, authHeader, envUser, envPass) ==
    IF Truthy(authCookie) THEN Forward(Null)
    ELSE IF ~Truthy(envUser) \/ ~Truthy(envPass)
    THEN EdgeResponse(500, "Server misconfiguration")
    ELSE LET match == IF authHeader = Null THEN Null ELSE BasicMatch(authHeader[1])
             decoded == IF match = Null THEN Null ELSE atob(match[1])
         IN  IF match # Null /\ decoded = Null
             THEN \* atob throws; the handler rejects without a response
                  [next |-> FALSE, status |-> 0, body |-> Null, setCookie |-> Null]
             ELSE IF /\ match # Null
                     /\ Element(Split(decoded[1]), 1) = envUser
                     /\ Element(Split(decoded[1]), 2) = envPass
             THEN Forward(<<AuthCookie>>)
             ELSE EdgeResponse(401, "Access Denied")

\* the requests and the deployments of the model
RequestCookies == {Null, << <<>> >>, << <<"t", "r", "u", "e">> >>}
RequestHeaders ==
    {Null} \cup {<<[scheme |-> "Basic", rest |-> t]>> : t \in {"YTpw", "YTpx", "YQ==", "%"}}
           \cup {<<[scheme |-> "Bearer", rest |-> "YTpw"]>>}
EnvUsers == {Null, << <<>> >>, << <<"a">> >>}
EnvPasswords == {Null, << <<"p">> >>}

\* a request of client c reaches the edge and the function answers it or
\* hands it on
EdgeRequest(c, authCookie, authHeader, envUser, envPass) ==
    /\ inflight[c].pc = "idle"
    /\ LET out == auth(authCookie, authHeader, envUser, envPass)
       IN  inflight' = [inflight EXCEPT ![c] =
               [NoRequest EXCEPT !.route = "edge", !.pc = "done",
                                 !.cookie = authCookie,
                                 !.authorization = authHeader,
                                 !.env = <<[user |-> envUser, pass |-> envPass]>>,
                                 !.next = out.next,
                                 !.status = out.status,
                                 !.setCookie = out.setCookie,
                                 !.body = out.body]]
    /\ UNCHANGED <<serverFrame, remote>>

NextEdge ==
    \E c \in Clients, authCookie \in RequestCookies, authHeader \in RequestHeaders,
       envUser \in EnvUsers, envPass \in EnvPasswords :
        EdgeRequest(c, authCookie, authHeader, envUser, envPass)

SpecEdge == InitServer /\ [][NextEdge]_vars

\* C30: when BASIC_AUTH_USER or BASIC_AUTH_PASSWORD is not configured, no
\* request is handed on to the application (context.next() is not reached),
\* whatever cookie and Authorization header it carries.
C30_FailsClosed ==
    \A c \in Clients :
        (/\ inflight[c].route = "edge"
         /\ (~Truthy(inflight[c].env[1].user) \/ ~Truthy(inflight[c].env[1].pass)))
        => ~inflight[c].next
====
